---- MODULE Spec2Model ----
(***************************************************************************)
(* A model of compute_probabilities.py: the loader (load_json_files), the  *)
(* constraint model builder (build_problem and the helpers it calls), the  *)
(* exact enumeration engine (enumerate_consistent_matchings and its nested *)
(* dfs) and the three public entry points main chooses from                *)
(* (compute_probabilities, compute_probabilities_for_week,                 *)
(* compute_probabilities_split_weeks).                                     *)
(*                                                                         *)
(* Values read from JSON.  A value json.loads returns is a record with its *)
(* Python type in field t and its content in field v:                      *)
(*     None   [t |-> "null"]                                               *)
(*     bool   [t |-> "bool",  v |-> TRUE]                                  *)
(*     int    [t |-> "int",   v |-> 3]                                     *)
(*     float  [t |-> "float", v |-> <<3, 2>>]      (the fraction 3/2)      *)
(*            [t |-> "nan"],  [t |-> "inf", v |-> 1 or -1]                 *)
(*     str    [t |-> "str",   v |-> <<"m", "0">>]  (its characters)        *)
(*     list   [t |-> "list",  v |-> <<...>>]       (its items, tagged)     *)
(*     dict   [t |-> "dict",  v |-> << <<key, value>>, ... >>]             *)
(* A dict is the sequence of its items in insertion order (the order of    *)
(* the file), each key the characters of a str, no key twice; len() of it  *)
(* counts the items and iterating it gives the keys.  A float is the       *)
(* fraction it stands for, its denominator positive; NaN and the           *)
(* infinities, which json.loads reads too, are floats of their own.        *)
(* A Python str is the sequence of its characters, each a one-character    *)
(* string; the characters are the ASCII letters, the digits, the blanks    *)
(* " ", "\t", "\n", "\r", "\f" and the punctuation listed in Punctuation.  *)
(* Values the program computes itself (the Problem's matrices, beams,      *)
(* allowed, forced_pairs, all of the engine's state) are plain.            *)
(*                                                                         *)
(* Conventions of the engine.  Men and women are indexed from 0 as in the  *)
(* source.  A Python int used as a bit set (allowed[i], taken_mask, row    *)
(* masks) is the set of its bit positions; Python ints are unbounded, so   *)
(* `a & ~b` is set difference.  Python lists indexed by a man are          *)
(* functions on 0..n-1; other lists (a matrix and its rows, the            *)
(* ceremonies, sofar, order, cand_js, the dfs call stack) are sequences,   *)
(* so position p of the source is position p+1 here.  A dict the program   *)
(* builds (forced_pairs) is the sequence of its <<key, value>> items in    *)
(* insertion order.                                                        *)
(***************************************************************************)
EXTENDS Integers, Sequences, FiniteSets

\* ------------------------------------------------------------------ bounds

\* Size of the roster the evidence is about.
N == 3
\* Most ceremonies (rounds) in a run that explores the rounds.
MaxRounds == 2
\* Most truth-booth (oracle) records in a run that explores the oracle.
MaxBooth == 3
\* Largest week number of a file name in a run that splits the evidence by week.
MaxWeek == 2

\* assignment[i] == -1: man i has no woman yet.
None == -1

\* ----------------------------------------------------------------- helpers

Range(s) == {s[p] : p \in 1 .. Len(s)}

RECURSIVE SeqSum(_)
SeqSum(s) == IF s = <<>> THEN 0 ELSE Head(s) + SeqSum(Tail(s))

\* The integers of a finite set in ascending order (`for j in range(n) if ...`).
RECURSIVE Ascending(_)
Ascending(S) ==
    IF S = {} THEN <<>>
    ELSE LET m == CHOOSE x \in S : \A y \in S : x <= y
         IN <<m>> \o Ascending(S \ {m})

\* Python's tuple comparison a < b for tuples of integers of one length.
RECURSIVE LexLess(_, _)
LexLess(a, b) ==
    IF a = <<>> \/ b = <<>> THEN FALSE
    ELSE IF Head(a) # Head(b) THEN Head(a) < Head(b)
    ELSE LexLess(Tail(a), Tail(b))

RECURSIVE SortedInsert(_, _, _)
SortedInsert(s, x, key) ==
    IF s = <<>> THEN <<x>>
    ELSE IF LexLess(key[x], key[Head(s)]) THEN <<x>> \o s
    ELSE <<Head(s)>> \o SortedInsert(Tail(s), x, key)

\* list.sort(key=...): stable, ascending by key; key maps an element to a tuple.
RECURSIVE StableSort(_, _)
StableSort(s, key) ==
    IF s = <<>> THEN <<>>
    ELSE SortedInsert(StableSort(SubSeq(s, 1, Len(s) - 1), key), s[Len(s)], key)

\* popcount(x) of a bit set.
popcount(x) == Cardinality(x)

\* A raised SystemExit, or an exception nothing catches (kind "crash"), by kind
\* and message.
Failure(kind, msg) == [ok |-> FALSE, kind |-> kind, msg |-> msg]

\* ------------------------------------------------------- Python's values

JNull == [t |-> "null"]
JBool(b) == [t |-> "bool", v |-> b]
JInt(k) == [t |-> "int", v |-> k]
JStr(s) == [t |-> "str", v |-> s]
JList(l) == [t |-> "list", v |-> l]
JDict(items) == [t |-> "dict", v |-> items]
JFloat(num, den) == [t |-> "float", v |-> <<num, den>>]
JNaN == [t |-> "nan"]
JInf(sign) == [t |-> "inf", v |-> sign]

\* The keys the program looks up.
Str_men == <<"m", "e", "n">>
Str_women == <<"w", "o", "m", "e", "n">>
Str_matches == <<"m", "a", "t", "c", "h", "e", "s">>
Str_matchups == <<"m", "a", "t", "c", "h", "u", "p", "s">>
Str_result == <<"r", "e", "s", "u", "l", "t">>
Str_man == <<"m", "a", "n">>
Str_woman == <<"w", "o", "m", "a", "n">>

\* key in obj, and obj.get(key), of a dict.
Has(obj, key) == \E p \in 1 .. Len(obj.v) : obj.v[p][1] = key
Get(obj, key) ==
    IF Has(obj, key) THEN obj.v[CHOOSE p \in 1 .. Len(obj.v) : obj.v[p][1] = key][2]
    ELSE JNull

\* bool(x): None, False, 0, 0.0, "", [] and {} are false.
Truthy(x) ==
    CASE x.t = "null" -> FALSE
      [] x.t = "bool" -> x.v
      [] x.t = "int" -> x.v # 0
      [] x.t = "float" -> x.v[1] # 0
      [] x.t \in {"nan", "inf"} -> TRUE
      [] OTHER -> x.v # <<>>

\* len(x) is defined on a str, a list and a dict; iterating a str gives its
\* characters, iterating a dict its keys.
Sized(x) == x.t \in {"str", "list", "dict"}
PyLen(x) == Len(x.v)
Items(x) ==
    CASE x.t = "str" -> [p \in 1 .. Len(x.v) |-> JStr(<<x.v[p]>>)]
      [] x.t = "dict" -> [p \in 1 .. Len(x.v) |-> JStr(x.v[p][1])]
      [] OTHER -> x.v

\* A value that can be the key of a dict.
Hashable(x) == x.t \notin {"list", "dict"}

\* A bool, an int or a float that is no NaN and no infinity, as a fraction.
Finitary(x) == x.t \in {"bool", "int", "float"}
Fraction(x) ==
    CASE x.t = "bool" -> <<IF x.v THEN 1 ELSE 0, 1>>
      [] x.t = "int" -> <<x.v, 1>>
      [] OTHER -> x.v

\* a == b of two values json.loads returned. A bare NaN equals nothing, itself
\* included; json.loads returns one and the same float object for every NaN it
\* reads, and a list or a dict takes an item that is the same object for equal.
\* Two dicts are equal when they hold the same keys with equal values, in any order.
RECURSIVE PyEq(_, _)
PyEq(a, b) ==
    IF Finitary(a) /\ Finitary(b)
    THEN Fraction(a)[1] * Fraction(b)[2] = Fraction(b)[1] * Fraction(a)[2]
    ELSE IF a.t # b.t THEN FALSE
    ELSE IF a.t = "null" THEN TRUE
    ELSE IF a.t = "nan" THEN FALSE
    ELSE IF a.t = "inf" THEN a.v = b.v
    ELSE IF a.t = "str" THEN a.v = b.v
    ELSE IF a.t = "list"
    THEN /\ Len(a.v) = Len(b.v)
         /\ \A p \in 1 .. Len(a.v) :
               \/ a.v[p].t = "nan" /\ b.v[p].t = "nan"
               \/ PyEq(a.v[p], b.v[p])
    ELSE /\ Len(a.v) = Len(b.v)
         /\ \A p \in 1 .. Len(a.v) :
               /\ Has(b, a.v[p][1])
               /\ \/ a.v[p][2].t = "nan" /\ Get(b, a.v[p][1]).t = "nan"
                  \/ PyEq(a.v[p][2], Get(b, a.v[p][1]))

\* ------------------------------------------------------ Python's strings

Digits == <<"0", "1", "2", "3", "4", "5", "6", "7", "8", "9">>
UpperCase == <<"A", "B", "C", "D", "E", "F", "G", "H", "I", "J", "K", "L", "M",
               "N", "O", "P", "Q", "R", "S", "T", "U", "V", "W", "X", "Y", "Z">>
LowerCase == <<"a", "b", "c", "d", "e", "f", "g", "h", "i", "j", "k", "l", "m",
               "n", "o", "p", "q", "r", "s", "t", "u", "v", "w", "x", "y", "z">>
\* The other characters, each with its code point.
Punctuation ==
    << <<"\t", 9>>, <<"\n", 10>>, <<"\f", 12>>, <<"\r", 13>>, <<" ", 32>>,
       <<"+", 43>>, <<"-", 45>>, <<".", 46>>, <<"/", 47>>, <<"_", 95>> >>

DigitChars == Range(Digits)
UpperChars == Range(UpperCase)
LowerChars == Range(LowerCase)

PositionIn(table, c) == CHOOSE p \in 1 .. Len(table) : table[p] = c

\* c.isdigit(), and \d of the patterns.
IsDigit(c) == c \in DigitChars
DigitValue(c) == PositionIn(Digits, c) - 1

\* ord(c).
Ord(c) ==
    IF c \in DigitChars THEN 47 + PositionIn(Digits, c)
    ELSE IF c \in UpperChars THEN 64 + PositionIn(UpperCase, c)
    ELSE IF c \in LowerChars THEN 96 + PositionIn(LowerCase, c)
    ELSE Punctuation[CHOOSE p \in 1 .. Len(Punctuation) : Punctuation[p][1] = c][2]

\* s.lower().
lower(s) ==
    [p \in 1 .. Len(s) |->
        IF s[p] \in UpperChars THEN LowerCase[PositionIn(UpperCase, s[p])] ELSE s[p]]

\* s.strip(): the blanks at both ends removed.
Blank == {" ", "\t", "\n", "\r", "\f"}
RECURSIVE LStrip(_)
LStrip(s) == IF s # <<>> /\ Head(s) \in Blank THEN LStrip(Tail(s)) ELSE s
RECURSIVE RStrip(_)
RStrip(s) ==
    IF s # <<>> /\ s[Len(s)] \in Blank THEN RStrip(SubSeq(s, 1, Len(s) - 1)) ELSE s
strip(s) == RStrip(LStrip(s))

\* a < b of two strs: by code point, a proper prefix first.
RECURSIVE StrLess(_, _)
StrLess(a, b) ==
    IF b = <<>> THEN FALSE
    ELSE IF a = <<>> THEN TRUE
    ELSE IF Head(a) # Head(b) THEN Ord(Head(a)) < Ord(Head(b))
    ELSE StrLess(Tail(a), Tail(b))

\* The number a run of digits writes.
RECURSIVE Decimal(_)
Decimal(s) ==
    IF s = <<>> THEN 0
    ELSE 10 * Decimal(SubSeq(s, 1, Len(s) - 1)) + DigitValue(s[Len(s)])

\* int(s) of a str: blanks around, a sign, digits with single underscores between
\* them; a ValueError otherwise.
IntOfStr(s) ==
    LET b == strip(s)
        signed == b # <<>> /\ b[1] \in {"+", "-"}
        body == IF signed THEN Tail(b) ELSE b
        wellFormed ==
            /\ body # <<>>
            /\ \A p \in 1 .. Len(body) :
                  \/ IsDigit(body[p])
                  \/ /\ body[p] = "_" /\ p > 1 /\ p < Len(body)
                     /\ IsDigit(body[p - 1]) /\ IsDigit(body[p + 1])
        magnitude == Decimal(SelectSeq(body, IsDigit))
    IN IF ~wellFormed THEN Failure("crash", "ValueError")
       ELSE [ok |-> TRUE, v |-> IF signed /\ b[1] = "-" THEN 0 - magnitude ELSE magnitude]

\* int(x): a float is cut towards zero.
int(x) ==
    CASE x.t = "int" -> [ok |-> TRUE, v |-> x.v]
      [] x.t = "bool" -> [ok |-> TRUE, v |-> IF x.v THEN 1 ELSE 0]
      [] x.t = "float" -> [ok |-> TRUE,
                           v |-> IF x.v[1] >= 0 THEN x.v[1] \div x.v[2]
                                 ELSE 0 - ((0 - x.v[1]) \div x.v[2])]
      [] x.t = "nan" -> Failure("crash", "ValueError")
      [] x.t = "inf" -> Failure("crash", "OverflowError")
      [] x.t = "str" -> IntOfStr(x.v)
      [] OTHER -> Failure("crash", "TypeError")

\* (x or "").strip() of lines 41-42, 74-75 and 304-305: an AttributeError when x
\* is true and no str.
StrippedName(x) ==
    IF ~Truthy(x) THEN [ok |-> TRUE, v |-> <<>>]
    ELSE IF x.t = "str" THEN [ok |-> TRUE, v |-> strip(x.v)]
    ELSE Failure("crash", "AttributeError")

\* ------------------------------------------------------------ the loader

\* A file of a directory: its name, and what read_json_file makes of its text.
\* blank: nothing is left of the text once the BOM and the blanks around it are
\* stripped (line 207).  raw: what json.loads gives for the stripped text;
\* decommented: what it gives once _decomment has removed // and /* */ from it
\* (which also cuts a string that holds them); each is [ok |-> TRUE, obj |-> the
\* value] or [ok |-> FALSE].
FileOf(path, blank, raw, decommented) ==
    [path |-> path, blank |-> blank, raw |-> raw, decommented |-> decommented]

Parsed(obj) == [ok |-> TRUE, obj |-> obj]
Unparsed == [ok |-> FALSE]

\* Lines 204-217.
read_json_file(file, allow_comments) ==
    IF file.blank THEN Failure("load", "file is empty")
    ELSE LET r == IF allow_comments THEN file.decommented ELSE file.raw IN
         IF r.ok THEN [ok |-> TRUE, obj |-> r.obj]
         ELSE Failure("load", "Invalid JSON")

\* Lines 192-193: re.split(r'(\d+)', s) from a run of text (digit = FALSE) or of
\* digits on; a run of digits becomes its number, a run of text its lower case.
RECURSIVE RunLength(_, _)
RunLength(s, digit) ==
    IF s # <<>> /\ IsDigit(Head(s)) = digit THEN 1 + RunLength(Tail(s), digit) ELSE 0

RECURSIVE NaturalKeyFrom(_, _)
NaturalKeyFrom(s, digit) ==
    LET k == RunLength(s, digit)
        run == SubSeq(s, 1, k)
        rest == SubSeq(s, k + 1, Len(s))
    IN IF digit THEN <<JInt(Decimal(run))>> \o NaturalKeyFrom(rest, FALSE)
       ELSE <<JStr(lower(run))>> \o (IF rest = <<>> THEN <<>> ELSE NaturalKeyFrom(rest, TRUE))

natural_key(path) == NaturalKeyFrom(path, FALSE)

\* a < b of two natural keys (Python's list comparison; the items at one position
\* are both numbers or both text).
RECURSIVE KeyLess(_, _)
KeyLess(a, b) ==
    IF b = <<>> THEN FALSE
    ELSE IF a = <<>> THEN TRUE
    ELSE IF Head(a) = Head(b) THEN KeyLess(Tail(a), Tail(b))
    ELSE IF Head(a).t = "int" THEN Head(a).v < Head(b).v
    ELSE StrLess(Head(a).v, Head(b).v)

RECURSIVE NaturalInsert(_, _)
NaturalInsert(s, x) ==
    IF s = <<>> THEN <<x>>
    ELSE IF KeyLess(natural_key(x.path), natural_key(Head(s).path)) THEN <<x>> \o s
    ELSE <<Head(s)>> \o NaturalInsert(Tail(s), x)

\* sorted(..., key=natural_key) of lines 223 and 270 (stable), on records that
\* have a path.  A path stands for its file name: the folder in front of it is
\* the same for the files of a directory.
RECURSIVE NaturalSort(_)
NaturalSort(s) ==
    IF s = <<>> THEN <<>>
    ELSE NaturalInsert(NaturalSort(SubSeq(s, 1, Len(s) - 1)), s[Len(s)])

\* Line 222-223: pat.fullmatch(f) for the pattern prefix.*\.json, ignoring case
\* (the dot of the pattern matches no newline).
Suffix == <<".", "j", "s", "o", "n">>
FullMatch(prefix, name) ==
    LET l == lower(name) IN
    /\ Len(l) >= Len(prefix) + Len(Suffix)
    /\ SubSeq(l, 1, Len(prefix)) = prefix
    /\ SubSeq(l, Len(l) - Len(Suffix) + 1, Len(l)) = Suffix
    /\ \A p \in (Len(prefix) + 1) .. (Len(l) - Len(Suffix)) : l[p] # "\n"

WeekPrefix == <<"w", "e", "e", "k", "_">>
BoothPrefix == <<"b", "o", "o", "t", "h", "_">>

\* The files of the sorted listing read one after the other (lines 225-233), from
\* file idx on; the first that cannot be read ends the run.
RECURSIVE ReadAll(_, _, _, _)
ReadAll(files, idx, allow_comments, objs) ==
    IF idx > Len(files) THEN [ok |-> TRUE, objs |-> objs]
    ELSE LET r == read_json_file(files[idx], allow_comments) IN
         IF ~r.ok THEN r
         ELSE ReadAll(files, idx + 1, allow_comments,
                      Append(objs, [path |-> files[idx].path, obj |-> r.obj]))

\* Lines 219-234.  folder is [exists |-> whether it is a directory, files |-> what
\* os.listdir gives, in the order it gives it].
load_json_files(folder, prefix, allow_comments) ==
    IF ~folder.exists THEN [ok |-> TRUE, objs |-> <<>>]
    ELSE ReadAll(NaturalSort(SelectSeq(folder.files, LAMBDA f : FullMatch(prefix, f.path))),
                 1, allow_comments, <<>>)

\* ------------------------------------------------------------ the weeks

\* Lines 84-86: the first run of digits of the file name, or math.inf.
Infinity == [inf |-> TRUE]
Finite(k) == [inf |-> FALSE, n |-> k]
_week_of(path) ==
    LET skip == RunLength(path, FALSE)
        rest == SubSeq(path, skip + 1, Len(path))
    IN IF rest = <<>> THEN Infinity ELSE Finite(Decimal(SubSeq(rest, 1, RunLength(rest, TRUE))))

\* a < b and a <= week of what _week_of returns.
WeekLess(a, b) == ~a.inf /\ (b.inf \/ a.n < b.n)
WeekAtMost(a, week) == ~a.inf /\ a.n <= week

\* Lines 88-90.
_filter_upto_week(pairs, week) ==
    SelectSeq(pairs, LAMBDA p : WeekAtMost(_week_of(p.path), week))

\* sorted(ceremony_objs, key=lambda t: _week_of(t[0]))[0] of lines 118 and 169:
\* the first of the files of the least week.
EarliestCeremony(objs) ==
    objs[CHOOSE p \in 1 .. Len(objs) :
            \A q \in 1 .. Len(objs) :
                /\ ~WeekLess(_week_of(objs[q].path), _week_of(objs[p].path))
                /\ q < p => WeekLess(_week_of(objs[p].path), _week_of(objs[q].path))]

\* The finite weeks of the ceremony files, and the largest of them or 0 (lines
\* 123 and 156-157).
FiniteWeeks(objs) ==
    {_week_of(objs[p].path).n : p \in {q \in 1 .. Len(objs) : ~_week_of(objs[q].path).inf}}
MaxWeekOf(objs) ==
    IF FiniteWeeks(objs) = {} THEN 0
    ELSE CHOOSE m \in FiniteWeeks(objs) : \A k \in FiniteWeeks(objs) : k <= m

\* -------------------------------------------------------- build_problem

\* (None, None), and a roster found.
NoRoster == [ok |-> TRUE, men |-> JNull, women |-> JNull]
RosterOf(men, women) == [ok |-> TRUE, men |-> men, women |-> women]

\* Lines 39-46: the names of the 'matches' list in their order of first appearance,
\* from pair idx on.
RECURSIVE NamesOfMatches(_, _, _)
NamesOfMatches(pairs, idx, st) ==
    IF idx > Len(pairs) THEN st
    ELSE
      LET pair == pairs[idx] IN
      IF pair.t # "dict" THEN Failure("crash", "AttributeError")
      ELSE
        LET man == StrippedName(Get(pair, Str_man))
            woman == StrippedName(Get(pair, Str_woman))
        IN
        IF ~man.ok THEN man
        ELSE IF ~woman.ok THEN woman
        ELSE NamesOfMatches(pairs, idx + 1,
               [st EXCEPT
                  !.men_list = IF man.v # <<>> /\ man.v \notin Range(@)
                               THEN Append(@, man.v) ELSE @,
                  !.women_list = IF woman.v # <<>> /\ woman.v \notin Range(@)
                                 THEN Append(@, woman.v) ELSE @])

StrList(names) == JList([p \in 1 .. Len(names) |-> JStr(names[p])])

\* Lines 47-49: the roster of the names found, if there are any of both.
RosterOfNames(d) ==
    IF ~d.ok THEN d
    ELSE IF d.men_list # <<>> /\ d.women_list # <<>>
    THEN RosterOf(StrList(d.men_list), StrList(d.women_list))
    ELSE NoRoster

\* Lines 26-50.
roster_from_ceremony_obj(obj, allow_from_matches) ==
    IF obj.t # "dict" THEN Failure("crash", "AttributeError")
    ELSE IF Truthy(Get(obj, Str_men)) /\ Truthy(Get(obj, Str_women))
    THEN RosterOf(Get(obj, Str_men), Get(obj, Str_women))
    ELSE IF allow_from_matches /\ Get(obj, Str_matches).t = "list"
    THEN RosterOfNames(NamesOfMatches(Get(obj, Str_matches).v, 1,
                                      [ok |-> TRUE, men_list |-> <<>>, women_list |-> <<>>]))
    ELSE NoRoster

\* name_to_man / name_to_woman: {name: i for i, name in enumerate(roster)}, looked
\* up with a str; of a name the roster holds twice the later index stays.
KnownName(roster, name) == \E p \in 1 .. Len(roster) : roster[p] = JStr(name)
NameIndex(roster, name) ==
    (CHOOSE p \in 1 .. Len(roster) :
        roster[p] = JStr(name) /\ \A q \in 1 .. Len(roster) : roster[q] = JStr(name) => q <= p) - 1

\* Whether the dict comprehension of lines 70-71 and 299-300 can be built: the
\* roster can be iterated and its items hashed.
CanIndex(roster) == Sized(roster) /\ \A p \in 1 .. Len(Items(roster)) : Hashable(Items(roster)[p])

\* any(len(row) != n for row in mat) of line 65, from row p on: "square", "ragged",
\* or the TypeError of a row without a length met first.
RECURSIVE RowsOf(_, _, _)
RowsOf(rows, p, n) ==
    IF p > Len(rows) THEN "square"
    ELSE IF ~Sized(rows[p]) THEN "TypeError"
    ELSE IF PyLen(rows[p]) # n THEN "ragged"
    ELSE RowsOf(rows, p + 1, n)

\* The first failure of a sequence of results, or none.
FirstFailure(rs) ==
    IF \A p \in 1 .. Len(rs) : rs[p].ok THEN [ok |-> TRUE]
    ELSE rs[CHOOSE p \in 1 .. Len(rs) : ~rs[p].ok /\ \A q \in 1 .. (p - 1) : rs[q].ok]

\* A list built item by item: the values of the results, or the first failure.
Collect(rs) ==
    IF FirstFailure(rs).ok THEN [ok |-> TRUE, v |-> [p \in 1 .. Len(rs) |-> rs[p].v]]
    ELSE FirstFailure(rs)

\* list(map(int, row)) of line 67.
IntRow(row) == Collect([p \in 1 .. PyLen(row) |-> int(Items(row)[p])])

\* return mat, int(beams) of lines 67 and 79: m is the matrix built, b is int(beams).
MatrixAndBeams(m, b) ==
    IF ~m.ok THEN m
    ELSE IF ~b.ok THEN b
    ELSE [ok |-> TRUE, mat |-> m.v, beams |-> b.v]

\* Lines 63-67: the old format.
MatrixFromMatchups(mat, beams, n) ==
    IF ~Sized(mat) THEN Failure("crash", "TypeError")
    ELSE IF PyLen(mat) # n THEN Failure("structural", "ceremony matchups must be n x n")
    ELSE
      LET shape == RowsOf(Items(mat), 1, n) IN
      IF shape = "TypeError" THEN Failure("crash", "TypeError")
      ELSE IF shape = "ragged" THEN Failure("structural", "ceremony matchups must be n x n")
      ELSE MatrixAndBeams(Collect([p \in 1 .. n |-> IntRow(Items(mat)[p])]), int(beams))

\* Lines 73-78: the named pairs entered into the matrix, from pair idx on.
RECURSIVE MatchesLoop(_, _, _, _, _)
MatchesLoop(pairs, idx, men, women, mat) ==
    IF idx > Len(pairs) THEN [ok |-> TRUE, v |-> mat]
    ELSE
      LET pair == pairs[idx] IN
      IF pair.t # "dict" THEN Failure("crash", "AttributeError")
      ELSE
        LET man == StrippedName(Get(pair, Str_man))
            woman == StrippedName(Get(pair, Str_woman))
        IN
        IF ~man.ok THEN man
        ELSE IF ~woman.ok THEN woman
        ELSE IF ~KnownName(men, man.v) \/ ~KnownName(women, woman.v)
        THEN Failure("referential", "unknown name in matches")
        ELSE
          LET mi == NameIndex(men, man.v)
              wj == NameIndex(women, woman.v)
          IN
          IF wj >= Len(mat) THEN Failure("crash", "IndexError")
          ELSE MatchesLoop(pairs, idx + 1, men, women,
                           [mat EXCEPT ![mi + 1][wj + 1] = 1])

\* Lines 69-79: the new format.
MatrixFromMatches(pairs, beams, men, women, n) ==
    IF ~CanIndex(men) \/ ~CanIndex(women) THEN Failure("crash", "TypeError")
    ELSE MatrixAndBeams(MatchesLoop(pairs, 1, Items(men), Items(women),
                                    [r \in 1 .. n |-> [c \in 1 .. n |-> 0]]),
                        int(beams))

\* Lines 52-81.
matchups_from_ceremony_obj(obj, men, women) ==
    IF ~Sized(men) THEN Failure("crash", "TypeError")
    ELSE IF obj.t # "dict" THEN Failure("crash", "AttributeError")
    ELSE
      LET n == PyLen(men)
          beams == Get(obj, Str_result)
      IN
      IF beams.t = "null" THEN Failure("structural", "ceremony missing 'result'")
      ELSE IF Has(obj, Str_matchups) THEN MatrixFromMatchups(Get(obj, Str_matchups), beams, n)
      ELSE IF Has(obj, Str_matches) /\ Get(obj, Str_matches).t = "list"
      THEN MatrixFromMatches(Get(obj, Str_matches).v, beams, men, women, n)
      ELSE Failure("structural", "ceremony must contain either 'matchups' or 'matches'")

\* Lines 236-243; "ValueError" where line 243 raises it (nothing catches it).
parse_truth_result(val) ==
    IF val.t = "str"
    THEN LET v == lower(strip(val.v)) IN
         IF v \in {<<"m", "a", "t", "c", "h">>, <<"t", "r", "u", "e">>,
                   <<"y", "e", "s">>, <<"1">>}
         THEN "match"
         ELSE IF v \in {<<"n", "o", " ", "m", "a", "t", "c", "h">>,
                        <<"n", "o", "m", "a", "t", "c", "h">>,
                        <<"f", "a", "l", "s", "e">>, <<"n", "o">>, <<"0">>}
         THEN "no match"
         ELSE "ValueError"
    ELSE IF val.t \in {"int", "bool"}
    THEN (IF Truthy(val) THEN "match" ELSE "no match")
    ELSE "ValueError"

\* The loop over the ceremony files (lines 272-291), from file idx on; st holds
\* men, women and the ceremonies built so far.  The test of lines 289-290 repeats
\* the one matchups_from_ceremony_obj has made, and int(beams) of line 291 is
\* given an int.
RECURSIVE CeremonyLoop(_, _, _)
RECURSIVE CeremonyRoster(_, _, _, _)
RECURSIVE CeremonyAppend(_, _, _, _)

\* Lines 288-291: m is what matchups_from_ceremony_obj returned.
CeremonyAppend(objs, idx, st, m) ==
    IF ~m.ok THEN m
    ELSE CeremonyLoop(objs, idx + 1,
           [st EXCEPT !.ceremonies = Append(@, [matchups |-> m.mat, beams |-> m.beams])])

\* Lines 274-288: r is what roster_from_ceremony_obj returned.
CeremonyRoster(objs, idx, st, r) ==
    IF ~r.ok THEN r
    ELSE IF idx = 1 /\ (~Truthy(r.men) \/ ~Truthy(r.women))
    THEN Failure("structural", "cannot infer men/women roster")
    ELSE IF idx # 1 /\ Truthy(r.men) /\ Truthy(r.women)
            /\ (~PyEq(r.men, st.men) \/ ~PyEq(r.women, st.women))
    THEN Failure("structural", "men/women differ from earlier ceremony file(s)")
    ELSE
      LET men == IF idx = 1 THEN r.men ELSE st.men
          women == IF idx = 1 THEN r.women ELSE st.women
      IN CeremonyAppend(objs, idx, [st EXCEPT !.men = men, !.women = women],
                        matchups_from_ceremony_obj(objs[idx].obj, men, women))

CeremonyLoop(objs, idx, st) ==
    IF idx > Len(objs) THEN st
    ELSE CeremonyRoster(objs, idx, st, roster_from_ceremony_obj(objs[idx].obj, idx = 1))

\* forced_pairs[i] = j on the dict's items: a new key goes last, a known key
\* keeps its place.
DictHas(d, i) == \E p \in 1 .. Len(d) : d[p][1] = i
DictGet(d, i) == d[CHOOSE p \in 1 .. Len(d) : d[p][1] = i][2]
DictSet(d, i, j) ==
    IF DictHas(d, i)
    THEN [p \in 1 .. Len(d) |-> IF d[p][1] = i THEN <<i, j>> ELSE d[p]]
    ELSE Append(d, <<i, j>>)

\* The 'no match' branch (line 311): allowed[i] &= ~(1 << j).
ExcludeAssigning(allowed, i, j) == [allowed EXCEPT ![i] = {x \in DOMAIN allowed : x # j}]
Exclude(allowed, i, j) == [allowed EXCEPT ![i] = @ \ {j}]

\* The 'match' branch (lines 313-315).
RecordForcedOverwriting(st, i, j) ==
    [st EXCEPT !.forced_pairs = DictSet(st.forced_pairs, i, j)]
RecordForced(st, i, j) ==
    IF DictHas(st.forced_pairs, i) /\ DictGet(st.forced_pairs, i) # j
    THEN Failure("contradiction", "Conflicting forced matches")
    ELSE [st EXCEPT !.forced_pairs = DictSet(st.forced_pairs, i, j)]

\* The loop over the truth-booth files (lines 303-315), from file idx on.
RECURSIVE TruthLoop(_, _, _)
TruthLoop(objs, idx, st) ==
    IF idx > Len(objs) THEN st
    ELSE
      LET obj == objs[idx].obj IN
      IF obj.t # "dict" THEN Failure("crash", "AttributeError")
      ELSE
        LET man == StrippedName(Get(obj, Str_man))
            woman == StrippedName(Get(obj, Str_woman))
        IN
        IF ~man.ok THEN man
        ELSE IF ~woman.ok THEN woman
        ELSE IF ~KnownName(Items(st.men), man.v) \/ ~KnownName(Items(st.women), woman.v)
        THEN Failure("referential", "unknown names")
        ELSE
          LET i == NameIndex(Items(st.men), man.v)
              j == NameIndex(Items(st.women), woman.v)
              res == parse_truth_result(Get(obj, Str_result))
          IN
          IF res = "ValueError" THEN Failure("crash", "ValueError")
          ELSE IF res = "no match"
          THEN TruthLoop(objs, idx + 1, [st EXCEPT !.allowed = Exclude(st.allowed, i, j)])
          ELSE
            LET st2 == RecordForced(st, i, j) IN
            IF ~st2.ok THEN st2 ELSE TruthLoop(objs, idx + 1, st2)

\* men[i] and women[j] of the messages of lines 320, 327, 331 and 359: a list and
\* a str have an item at an index; a dict read from a file has strs for keys and
\* none at an int, a KeyError.
Subscriptable(roster) == roster.t # "dict"
Complaint(rosters, msg) ==
    IF \A p \in 1 .. Len(rosters) : Subscriptable(rosters[p])
    THEN Failure("contradiction", msg)
    ELSE Failure("crash", "KeyError")

\* One forced pair applied to the domains (lines 321-324).
CollapseOwnOnly(allowed, i, j) == [allowed EXCEPT ![i] = {j}]
Collapse(allowed, i, j) ==
    [ii \in DOMAIN allowed |-> IF ii = i THEN {j} ELSE allowed[ii] \ {j}]

\* The loop over the forced pairs (lines 318-327), from item idx on.
RECURSIVE ForcedLoop(_, _)
ForcedLoop(idx, st) ==
    IF idx > Len(st.forced_pairs) THEN st
    ELSE
      LET i == st.forced_pairs[idx][1]
          j == st.forced_pairs[idx][2]
      IN
      IF j \notin st.allowed[i]
      THEN Complaint(<<st.men, st.women>>, "Forced pair contradicts a 'no match'")
      ELSE IF \E p \in 1 .. Len(st.forced_pairs) :
                st.forced_pairs[p][1] # i /\ st.forced_pairs[p][2] = j
      THEN Complaint(<<st.women>>, "Two forced pairs use woman")
      ELSE ForcedLoop(idx + 1, [st EXCEPT !.allowed = Collapse(st.allowed, i, j)])

\* The last loop (lines 329-331).
CheckDomainsSkipped(st) == st
CheckDomains(st) ==
    IF ~st.ok THEN st
    ELSE IF \E i \in DOMAIN st.allowed : st.allowed[i] = {}
    THEN Complaint(<<st.men>>, "No allowed options remain")
    ELSE st

\* Lines 318-333: t is the state after the truth-booth files.
BuildForced(t) == IF ~t.ok THEN t ELSE CheckDomains(ForcedLoop(1, t))

\* Lines 293-315: c is the state after the ceremony files.
BuildTruthBooths(c, truth_objs) ==
    IF ~c.ok THEN c
    ELSE IF c.men = JNull \/ c.women = JNull
    THEN Failure("roster", "Need at least one ceremony to define the roster.")
    ELSE IF ~CanIndex(c.men) \/ ~CanIndex(c.women)
    THEN Failure("crash", "TypeError")
    ELSE BuildForced(TruthLoop(truth_objs, 1,
                       [ok |-> TRUE, men |-> c.men, women |-> c.women,
                        ceremonies |-> c.ceremonies,
                        allowed |-> [i \in 0 .. (PyLen(c.men) - 1) |-> 0 .. (PyLen(c.men) - 1)],
                        forced_pairs |-> <<>>]))

\* Lines 265-333.  ceremony_objs and truth_objs are lists of (path, obj).
build_problem(ceremony_objs, truth_objs) ==
    BuildTruthBooths(CeremonyLoop(NaturalSort(ceremony_objs), 1,
                                  [ok |-> TRUE, men |-> JNull, women |-> JNull,
                                   ceremonies |-> <<>>]),
                     truth_objs)
\* -------------------------------------- enumerate_consistent_matchings

\* One activation of dfs(idx, taken_mask, sofar, unassigned_men).  pc is where it
\* stands: "entry" (called, nothing run yet), "loop" (at the head of `for j in
\* cand_js`, cand_js being what is left to try), "wait" (inside the recursive call
\* of line 435), "tail" (inside the call of line 405) and "ret" (returned).
\* in_assignment and in_sofar record the shared lists as they were on entry.
Frame(idx, taken_mask, assignment, sofar) ==
    [idx |-> idx, taken_mask |-> taken_mask, pc |-> "entry", i |-> None,
     cand_js |-> <<>>, j |-> None, inc |-> <<>>,
     in_assignment |-> assignment, in_sofar |-> sofar]

\* The engine before it is invoked.
IdleEngine ==
    [status |-> "idle", n |-> 0, C |-> <<>>, beams |-> <<>>, allowed |-> <<>>,
     order |-> <<>>, unassigned |-> <<>>, assignment |-> <<>>, sofar |-> <<>>,
     total |-> 0, pair_counts |-> <<>>, stack |-> <<>>]

ZeroMatrix(n) == [i \in 0 .. (n - 1) |-> [j \in 0 .. (n - 1) |-> 0]]

\* Lines 341-351: the row masks of a ceremony's matrix.
RowMasks(n, matchups) ==
    [i \in 0 .. (n - 1) |-> {j \in 0 .. (n - 1) : matchups[i + 1][j + 1] # 0}]

\* Lines 354-361: the forced pairs seeded into assignment and taken_mask; raised
\* is set where line 359 raises (a SystemExit, or the KeyError of women[j]).
RECURSIVE SeedForced(_, _, _)
SeedForced(forced_pairs, idx, st) ==
    IF idx > Len(forced_pairs) THEN st
    ELSE
      LET i == forced_pairs[idx][1]
          j == forced_pairs[idx][2]
      IN
      IF j \in st.taken_mask THEN [st EXCEPT !.raised = TRUE]
      ELSE SeedForced(forced_pairs, idx + 1,
             [st EXCEPT !.assignment[i] = j, !.taken_mask = @ \cup {j}])

\* Lines 363-370: sofar[k], the guesses of round k the seeded pairs confirm.
SeedSofarZero(n, C, assignment) == [k \in 1 .. Len(C) |-> 0]
SeedSofar(n, C, assignment) ==
    [k \in 1 .. Len(C) |->
        Cardinality({i \in 0 .. (n - 1) :
                        assignment[i] # None /\ assignment[i] \in C[k][i]})]

\* Lines 337-379 and 439-440: everything up to the first call of dfs.
EngineInit(problem) ==
    LET n == PyLen(problem.men)
        C == [k \in 1 .. Len(problem.ceremonies) |->
                 RowMasks(n, problem.ceremonies[k].matchups)]
        beams == [k \in 1 .. Len(problem.ceremonies) |-> problem.ceremonies[k].beams]
        seeded == SeedForced(problem.forced_pairs, 1,
                    [assignment |-> [i \in 0 .. (n - 1) |-> None],
                     taken_mask |-> {}, raised |-> FALSE])
        assignment == seeded.assignment
        taken_mask == seeded.taken_mask
        sofar == SeedSofar(n, C, assignment)
        domain_size == [i \in 0 .. (n - 1) |->
                          <<IF assignment[i] # None THEN 1
                            ELSE popcount(problem.allowed[i] \ taken_mask)>>]
        order == StableSort([p \in 1 .. n |-> p - 1], domain_size)
        unassigned == Ascending({i \in 0 .. (n - 1) : assignment[i] = None})
        e == [status |-> "running", n |-> n, C |-> C, beams |-> beams,
              allowed |-> problem.allowed, order |-> order, unassigned |-> unassigned,
              assignment |-> assignment, sofar |-> sofar, total |-> 0,
              pair_counts |-> ZeroMatrix(n),
              stack |-> <<Frame(0, taken_mask, assignment, sofar)>>]
    IN
    IF seeded.raised
    THEN [IdleEngine EXCEPT !.status = "raised", !.n = n]
    ELSE IF \E k \in 1 .. Len(C) : sofar[k] > beams[k]
    THEN [e EXCEPT !.status = "returned", !.stack = <<>>]
    ELSE e

Top(e) == e.stack[Len(e.stack)]
SetTop(e, f) == [e EXCEPT !.stack[Len(e.stack)] = f]

\* [ii for ii in unassigned_men if assignment[ii] == -1 (and ii != skip)].
StillUnassigned(e, skip) ==
    SelectSeq(e.unassigned, LAMBDA ii : e.assignment[ii] = None /\ ii # skip)

\* Lines 381-386.
ub_additional_taken(e, k, avail_mask, unassigned_men) ==
    Cardinality({p \in 1 .. Len(unassigned_men) :
        (e.C[k][unassigned_men[p]] \cap e.allowed[unassigned_men[p]]
            \cap ((0 .. (e.n - 1)) \ avail_mask)) # {}})
ub_additional(e, k, avail_mask, unassigned_men) ==
    Cardinality({p \in 1 .. Len(unassigned_men) :
        (e.C[k][unassigned_men[p]] \cap e.allowed[unassigned_men[p]] \cap avail_mask) # {}})

\* ~taken_mask & ((1 << n) - 1).
Avail(e, taken_mask) == (0 .. (e.n - 1)) \ taken_mask

\* Lines 390-396: every man is assigned.
DfsTerminalUnassignedOnly(e) ==
    LET f == Top(e) IN
    IF \E k \in 1 .. Len(e.C) : e.sofar[k] # e.beams[k]
    THEN SetTop(e, [f EXCEPT !.pc = "ret"])
    ELSE SetTop([e EXCEPT !.total = @ + 1,
                          !.pair_counts =
                             [i \in 0 .. (e.n - 1) |->
                                [j \in 0 .. (e.n - 1) |->
                                   IF e.assignment[i] = j /\ i \in Range(e.unassigned)
                                   THEN e.pair_counts[i][j] + 1
                                   ELSE e.pair_counts[i][j]]]],
                [f EXCEPT !.pc = "ret"])
DfsTerminal(e) ==
    LET f == Top(e) IN
    IF \E k \in 1 .. Len(e.C) : e.sofar[k] # e.beams[k]
    THEN SetTop(e, [f EXCEPT !.pc = "ret"])
    ELSE SetTop([e EXCEPT !.total = @ + 1,
                          !.pair_counts =
                             [i \in 0 .. (e.n - 1) |->
                                [j \in 0 .. (e.n - 1) |->
                                   IF e.assignment[i] = j
                                   THEN e.pair_counts[i][j] + 1
                                   ELSE e.pair_counts[i][j]]]],
                [f EXCEPT !.pc = "ret"])

\* Lines 399-404: whether the feasibility check at a forced man abandons the branch.
ForcedPruned(e, f) ==
    LET avail_mask == Avail(e, f.taken_mask) IN
    \E k \in 1 .. Len(e.C) :
        \/ e.sofar[k] > e.beams[k]
        \/ e.sofar[k] + ub_additional(e, k, avail_mask, StillUnassigned(e, None)) < e.beams[k]

\* Lines 398-406: order[idx] is a forced man.
DfsForced(e) ==
    LET f == Top(e) IN
    IF ForcedPruned(e, f)
    THEN SetTop(e, [f EXCEPT !.pc = "ret"])
    ELSE LET e2 == SetTop(e, [f EXCEPT !.pc = "tail", !.i = e.order[f.idx + 1]])
         IN [e2 EXCEPT !.stack =
                Append(@, Frame(f.idx + 1, f.taken_mask, e.assignment, e.sofar))]

\* Lines 412-415: the sort key of candidate j for man i.
score(e, i, j) ==
    LET hits == Cardinality({k \in 1 .. Len(e.C) : j \in e.C[k][i]})
        fanout == Cardinality({p \in 1 .. Len(e.unassigned) :
                      e.assignment[e.unassigned[p]] = None
                      /\ j \in e.allowed[e.unassigned[p]]})
    IN <<0 - hits, fanout>>

\* Lines 408-416: order[idx] is to be chosen a woman.
DfsBranch(e) ==
    LET f == Top(e)
        i == e.order[f.idx + 1]
        candidates_mask == e.allowed[i] \ f.taken_mask
        cand_js == StableSort(Ascending(candidates_mask),
                              [j \in candidates_mask |-> score(e, i, j)])
    IN
    IF candidates_mask = {}
    THEN SetTop(e, [f EXCEPT !.pc = "ret", !.i = i])
    ELSE SetTop(e, [f EXCEPT !.pc = "loop", !.i = i, !.cand_js = cand_js])

\* Lines 419-422: inc[k] for the pair (i, j).
Inc(e, i, j) == [k \in 1 .. Len(e.C) |-> IF j \in e.C[k][i] THEN 1 ELSE 0]

\* Line 423: the pair would take some round past its beams.
ExceedsAtLeast(e, i, j) ==
    \E k \in 1 .. Len(e.C) : Inc(e, i, j)[k] = 1 /\ e.sofar[k] + 1 >= e.beams[k]
Exceeds(e, i, j) ==
    \E k \in 1 .. Len(e.C) : Inc(e, i, j)[k] = 1 /\ e.sofar[k] + 1 > e.beams[k]

\* Lines 426-430: with the pair, some round can no longer reach its beams.
FallsShort(e, f, j) ==
    LET next_taken == f.taken_mask \cup {j}
        avail_mask == Avail(e, next_taken)
        inc == Inc(e, f.i, j)
    IN \E k \in 1 .. Len(e.C) :
          e.sofar[k] + inc[k] + ub_additional(e, k, avail_mask, StillUnassigned(e, f.i))
             < e.beams[k]

\* Lines 418-431: candidate j is skipped (`continue`).
Rejected(e, f, j) == Exceeds(e, f.i, j) \/ FallsShort(e, f, j)

DfsReject(e) ==
    LET f == Top(e) IN SetTop(e, [f EXCEPT !.cand_js = Tail(@)])

\* Lines 433-435: the pair is committed and dfs called on the next man.
DfsCommit(e) ==
    LET f == Top(e)
        j == Head(f.cand_js)
        inc == Inc(e, f.i, j)
        e2 == [e EXCEPT !.assignment[f.i] = j,
                        !.sofar = [k \in 1 .. Len(e.C) |-> e.sofar[k] + inc[k]]]
        e3 == SetTop(e2, [f EXCEPT !.pc = "wait", !.j = j, !.inc = inc])
    IN [e3 EXCEPT !.stack =
           Append(@, Frame(f.idx + 1, f.taken_mask \cup {j}, e2.assignment, e2.sofar))]

\* The for loop of line 418 has no candidate left: dfs falls off its end.
DfsExhausted(e) == SetTop(e, [Top(e) EXCEPT !.pc = "ret"])

\* Lines 436-437 in the caller g, whose call of line 435 has returned.
UndoKeepSofar(e, g) == [e EXCEPT !.assignment[g.i] = None]
Undo(e, g) ==
    [e EXCEPT !.sofar = [k \in 1 .. Len(e.C) |-> e.sofar[k] - g.inc[k]],
              !.assignment[g.i] = None]

\* A dfs activation returns: to line 441 (the first call), to line 406 (the caller
\* returns in its turn) or to lines 436-437 (the caller undoes its commit and goes
\* on to its next candidate).
DfsReturn(e) ==
    LET below == [e EXCEPT !.stack = SubSeq(@, 1, Len(@) - 1)] IN
    IF below.stack = <<>> THEN [below EXCEPT !.status = "returned"]
    ELSE LET g == Top(below) IN
         IF g.pc = "tail" THEN SetTop(below, [g EXCEPT !.pc = "ret"])
         ELSE SetTop(Undo(below, g), [g EXCEPT !.pc = "loop", !.cand_js = Tail(@)])

\* Which step the running engine takes next.
AtTerminal(e) == Top(e).pc = "entry" /\ Top(e).idx = Len(e.order)
AtForced(e) ==
    /\ Top(e).pc = "entry" /\ Top(e).idx < Len(e.order)
    /\ e.assignment[e.order[Top(e).idx + 1]] # None
AtBranch(e) ==
    /\ Top(e).pc = "entry" /\ Top(e).idx < Len(e.order)
    /\ e.assignment[e.order[Top(e).idx + 1]] = None
AtReject(e) ==
    /\ Top(e).pc = "loop" /\ Top(e).cand_js # <<>>
    /\ Rejected(e, Top(e), Head(Top(e).cand_js))
AtCommit(e) ==
    /\ Top(e).pc = "loop" /\ Top(e).cand_js # <<>>
    /\ ~Rejected(e, Top(e), Head(Top(e).cand_js))
AtExhausted(e) == Top(e).pc = "loop" /\ Top(e).cand_js = <<>>
AtReturn(e) == Top(e).pc = "ret"

EngineStep(e) ==
    IF AtTerminal(e) THEN DfsTerminal(e)
    ELSE IF AtForced(e) THEN DfsForced(e)
    ELSE IF AtBranch(e) THEN DfsBranch(e)
    ELSE IF AtReject(e) THEN DfsReject(e)
    ELSE IF AtCommit(e) THEN DfsCommit(e)
    ELSE IF AtExhausted(e) THEN DfsExhausted(e)
    ELSE DfsReturn(e)

RECURSIVE EngineRun(_)
EngineRun(e) == IF e.status # "running" THEN e ELSE EngineRun(EngineStep(e))

\* The whole call: (total, pair_counts), or the SystemExit of line 359.
enumerate_consistent_matchings(problem) == EngineRun(EngineInit(problem))

\* ------------------------------------------------ compute_probabilities

\* a / b of two integers, b # 0, as a fraction in lowest terms.
RECURSIVE Gcd(_, _)
Gcd(a, b) == IF b = 0 THEN a ELSE Gcd(b, a % b)
Ratio(a, b) == LET g == Gcd(a, b) IN <<a \div g, b \div g>>
Zero == <<0, 1>>

NoOutput == [written |-> FALSE, probabilities |-> <<>>, diagnostic |-> FALSE, error |-> ""]

\* Lines 95-104 and 452-460: the probabilities written to out_path.
OutputUnguarded(n, total, counts) ==
    IF total = 0
    THEN [NoOutput EXCEPT !.error = "ZeroDivisionError"]
    ELSE [written |-> TRUE,
          probabilities |-> [i \in 0 .. (n - 1) |-> [j \in 0 .. (n - 1) |->
                                Ratio(counts[i][j], total)]],
          diagnostic |-> FALSE, error |-> ""]
Output(n, total, counts) ==
    IF total > 0
    THEN [written |-> TRUE,
          probabilities |-> [i \in 0 .. (n - 1) |-> [j \in 0 .. (n - 1) |->
                                Ratio(counts[i][j], total)]],
          diagnostic |-> FALSE, error |-> ""]
    ELSE [written |-> TRUE,
          probabilities |-> [i \in 0 .. (n - 1) |-> [j \in 0 .. (n - 1) |-> Zero]],
          diagnostic |-> TRUE, error |-> ""]


\* ---------------------------------------------------------- the evidence

\* The names of the roster the well-formed evidence is about.
ManName(i) == <<"m", Digits[i + 1]>>
WomanName(j) == <<"w", Digits[j + 1]>>
Men == {ManName(i) : i \in 0 .. (N - 1)}
Women == {WomanName(j) : j \in 0 .. (N - 1)}

\* The roster arrays of the well-formed ceremony files, and another 'men' array.
Roster == JList([p \in 1 .. N |-> JStr(ManName(p - 1))])
WomenRoster == JList([p \in 1 .. N |-> JStr(WomanName(p - 1))])
OtherRoster == JList([p \in 1 .. N |-> JStr(ManName(N - p))])

\* The n x n 0/1 matrix whose row i has its ones at the columns g[i].
MatrixOf(g) ==
    JList([r \in 1 .. N |->
             JList([c \in 1 .. N |-> JInt(IF (c - 1) \in g[r - 1] THEN 1 ELSE 0)])])

\* Guess matrices: the identity pairing, a cyclic shift, a transposition, and a
\* matrix with two guesses in one row (the 'matchups' format takes any 0/1 matrix).
GuessIdentity == [i \in 0 .. (N - 1) |-> {i}]
GuessShift == [i \in 0 .. (N - 1) |-> {(i + 1) % N}]
GuessSwap == [i \in 0 .. (N - 1) |-> IF i = 0 THEN {1} ELSE IF i = 1 THEN {0} ELSE {i}]
GuessDouble == [i \in 0 .. (N - 1) |-> IF i = 0 THEN {0, 1} ELSE {i}]
Guesses == {GuessIdentity, GuessShift, GuessSwap, GuessDouble}

CeremonyObj(men, women, mat, result) ==
    JDict(<< <<Str_men, men>>, <<Str_women, women>>,
             <<Str_matchups, mat>>, <<Str_result, result>> >>)

\* Well-formed ceremony files: roster arrays, a matrix, a beam count.
GoodCeremonies ==
    {CeremonyObj(Roster, WomenRoster, MatrixOf(g), JInt(b)) : g \in Guesses, b \in 0 .. N}

\* Malformed ones: no 'result'; a matrix with a row missing; another roster.
BadCeremonies ==
    { JDict(<< <<Str_men, Roster>>, <<Str_women, WomenRoster>>,
               <<Str_matchups, MatrixOf(GuessIdentity)>> >>),
      CeremonyObj(Roster, WomenRoster,
                  JList(SubSeq(MatrixOf(GuessIdentity).v, 1, N - 1)), JInt(1)),
      CeremonyObj(OtherRoster, WomenRoster, MatrixOf(GuessIdentity), JInt(1)) }

\* The ceremonies of the runs that explore the oracle.
FewCeremonies ==
    { CeremonyObj(Roster, WomenRoster, MatrixOf(GuessIdentity), JInt(N)),
      CeremonyObj(Roster, WomenRoster, MatrixOf(GuessIdentity), JInt(1)),
      CeremonyObj(Roster, WomenRoster, MatrixOf(GuessDouble), JInt(1)) }

\* The new format: the pairs of a guess by name, each name between the blanks pad.
PairObj(man, woman) == JDict(<< <<Str_man, JStr(man)>>, <<Str_woman, JStr(woman)>> >>)
PairsOf(g, pad) ==
    JList([p \in 1 .. N |->
             PairObj(pad \o ManName(p - 1) \o pad,
                     pad \o WomanName(CHOOSE j \in g[p - 1] : TRUE) \o pad)])
MatchesObj(pairs, result) == JDict(<< <<Str_matches, pairs>>, <<Str_result, result>> >>)

\* A roster written as a dict (its keys are the names), a matrix written as a
\* dict (its keys are the rows, "010" for the row 0, 1, 0), and a row written
\* as a dict (its keys are the cells: "1", then "0", "00", ...).
RosterDict(name) == JDict([p \in 1 .. N |-> <<name[p].v, JInt(p)>>])
MatrixDict(g) ==
    JDict([r \in 1 .. N |->
             << [c \in 1 .. N |-> IF (c - 1) \in g[r - 1] THEN "1" ELSE "0"], JInt(r) >>])
RowDict == JDict([c \in 1 .. N |-> <<IF c = 1 THEN <<"1">> ELSE [q \in 1 .. (c - 1) |-> "0"],
                                      JNull>>])

\* Ceremony files in the other shapes the builder reads: named pairs without and
\* with roster arrays, padded names, an empty 'women' array beside the pairs, a
\* pair that names a stranger, neither 'matchups' nor 'matches', no roster at all,
\* cells written as true and false, beam counts written as true, " 1 ", -1,
\* null, "two" and 1.5, and rosters, a matrix and a row written as dicts.
FormatCeremonies ==
    { MatchesObj(PairsOf(GuessShift, <<>>), JInt(1)),
      MatchesObj(PairsOf(GuessIdentity, <<" ">>), JInt(N)),
      JDict(<< <<Str_men, Roster>>, <<Str_women, WomenRoster>>,
             <<Str_matches, PairsOf(GuessSwap, <<>>)>>, <<Str_result, JInt(1)>> >>),
      JDict(<< <<Str_men, Roster>>, <<Str_women, JList(<<>>)>>,
             <<Str_matches, PairsOf(GuessShift, <<>>)>>, <<Str_result, JInt(0)>> >>),
      JDict(<< <<Str_men, Roster>>, <<Str_women, WomenRoster>>,
             <<Str_matches, JList(<<PairObj(ManName(0), <<"z", "z">>)>>)>>,
             <<Str_result, JInt(1)>> >>),
      JDict(<< <<Str_men, Roster>>, <<Str_women, WomenRoster>>, <<Str_result, JInt(1)>> >>),
      JDict(<< <<Str_matchups, MatrixOf(GuessIdentity)>>, <<Str_result, JInt(1)>> >>),
      CeremonyObj(Roster, WomenRoster,
                  JList([r \in 1 .. N |-> JList([c \in 1 .. N |-> JBool(r = c)])]), JInt(1)),
      CeremonyObj(Roster, WomenRoster, MatrixOf(GuessIdentity), JBool(TRUE)),
      CeremonyObj(Roster, WomenRoster, MatrixOf(GuessSwap), JStr(<<" ", "1", " ">>)),
      CeremonyObj(Roster, WomenRoster, MatrixOf(GuessIdentity), JInt(0 - 1)),
      CeremonyObj(Roster, WomenRoster, MatrixOf(GuessIdentity), JNull),
      CeremonyObj(Roster, WomenRoster, MatrixOf(GuessIdentity), JStr(<<"t", "w", "o">>)),
      CeremonyObj(Roster, WomenRoster, MatrixOf(GuessIdentity), JFloat(3, 2)),
      CeremonyObj(RosterDict(Roster.v), RosterDict(WomenRoster.v), MatrixOf(GuessSwap), JInt(1)),
      CeremonyObj(Roster, WomenRoster, MatrixDict(GuessShift), JInt(0)),
      CeremonyObj(Roster, WomenRoster,
                  JList([r \in 1 .. N |-> IF r = 1 THEN RowDict ELSE MatrixOf(GuessIdentity).v[r]]),
                  JInt(N)) }

BoothObj(man, woman, result) ==
    JDict(<< <<Str_man, man>>, <<Str_woman, woman>>, <<Str_result, result>> >>)

Match == JStr(<<"m", "a", "t", "c", "h">>)
NoMatch == JStr(<<"n", "o", " ", "m", "a", "t", "c", "h">>)

\* Well-formed truth-booth files about names of the roster.
GoodBooths == {BoothObj(JStr(m), JStr(w), r) : m \in Men, w \in Women, r \in {Match, NoMatch}}

\* Malformed ones: a name outside the roster, a verdict in no accepted spelling.
BadBooths ==
    { BoothObj(JStr(<<"z", "z">>), JStr(WomanName(0)), Match),
      BoothObj(JStr(ManName(0)), JStr(WomanName(0)), JStr(<<"m", "a", "y", "b", "e">>)) }

\* Truth-booth files in the other shapes the builder reads: verdicts written as
\* true, false, 1, 0, " YES " and "No", padded names, and faults: a verdict null, a
\* verdict 1.0, a name missing, a name that is a number.
FormatBooths ==
    { BoothObj(JStr(ManName(0)), JStr(WomanName(1)), JBool(TRUE)),
      BoothObj(JStr(ManName(0)), JStr(WomanName(0)), JBool(FALSE)),
      BoothObj(JStr(ManName(1)), JStr(WomanName(0)), JInt(1)),
      BoothObj(JStr(ManName(1)), JStr(WomanName(1)), JInt(0)),
      BoothObj(JStr(ManName(2)), JStr(WomanName(2)), JStr(<<" ", "Y", "E", "S", " ">>)),
      BoothObj(JStr(ManName(2)), JStr(WomanName(0)), JStr(<<"N", "o">>)),
      BoothObj(JStr(<<" ">> \o ManName(0) \o <<" ">>), JStr(WomanName(2) \o <<"\n">>), Match),
      BoothObj(JStr(ManName(0)), JStr(WomanName(0)), JNull),
      JDict(<< <<Str_woman, JStr(WomanName(0))>>, <<Str_result, Match>> >>),
      BoothObj(JStr(ManName(1)), JStr(WomanName(2)), JFloat(1, 1)),
      BoothObj(JInt(1), JStr(WomanName(0)), Match) }

\* Records about a roster: a pair confirmed and refuted, a woman confirmed for
\* two men, a man confirmed for two women, a man left without a woman, and
\* records that agree.
DictRosterBooths ==
    LET B(m, wm, r) == BoothObj(JStr(ManName(m)), JStr(WomanName(wm)), r) IN
    { <<B(0, 0, Match), B(0, 0, NoMatch)>>,
      <<B(0, 0, Match), B(1, 0, Match)>>,
      <<B(0, 0, Match), B(0, 1, Match)>>,
      <<B(0, 0, Match), B(1, 1, NoMatch), B(1, 2, NoMatch)>>,
      <<B(0, 1, Match), B(1, 1, NoMatch)>>,
      <<B(0, 1, Match), B(1, 0, Match)>> }

SeqsUpTo(S, m) == UNION {[1 .. len -> S] : len \in 0 .. m}

\* The decimal digits of k >= 0.
RECURSIVE Numeral(_)
Numeral(k) ==
    IF k < 10 THEN <<Digits[k + 1]>> ELSE Numeral(k \div 10) \o <<Digits[(k % 10) + 1]>>

\* week_<k>.json and booth_<k>.json.
FileName(prefix, k) == prefix \o Numeral(k) \o Suffix

\* A file whose text is the JSON of obj, without comments.
PlainFile(path, obj) == FileOf(path, FALSE, Parsed(obj), Parsed(obj))

\* The directory that holds the objects of a sequence as files 1, 2, ...
Listing(prefix, objs) ==
    [exists |-> TRUE,
     files |-> [p \in 1 .. Len(objs) |-> PlainFile(FileName(prefix, p), objs[p])]]

\* Files of a directory for the runs that explore the loader: a plain file; one
\* with comments; one whose string holds "//"; a blank one; one that is no JSON; a
\* name in capitals; a name the pattern rejects.
LoaderFiles(prefix, obj) ==
    { PlainFile(FileName(prefix, 2), obj),
      FileOf(FileName(prefix, 1), FALSE, Unparsed, Parsed(obj)),
      FileOf(FileName(prefix, 3), FALSE, Parsed(obj), Unparsed),
      FileOf(FileName(prefix, 4), TRUE, Unparsed, Unparsed),
      FileOf(FileName(prefix, 5), FALSE, Unparsed, Unparsed),
      PlainFile(<<"W", "E", "E", "K", "_", "1", "0", ".", "J", "S", "O", "N">>, obj),
      PlainFile(prefix \o <<"1", ".", "t", "x", "t">>, obj) }

\* The listings of at most m files, no file twice, in any order.
ListingsOf(files, m) ==
    {s \in SeqsUpTo(files, m) : \A p \in 1 .. Len(s), q \in 1 .. Len(s) : p # q => s[p] # s[q]}

\* The directories of the runs that split the evidence by week: a file or none
\* for each of the names, week_<k>.json for k up to MaxWeek and a name without a
\* number; which(name) is the file's content, or None for no file.
NoNumber(prefix) == prefix \o <<"x">> \o Suffix
WeekNames(prefix) == [p \in 1 .. (MaxWeek + 2) |->
                         IF p = MaxWeek + 2 THEN NoNumber(prefix) ELSE FileName(prefix, p - 1)]
SplitFolder(prefix, which) ==
    [exists |-> TRUE,
     files |-> LET names == WeekNames(prefix)
                   all == [p \in 1 .. Len(names) |->
                             IF which[p] = JNull THEN JNull ELSE PlainFile(names[p], which[p])]
               IN SelectSeq(all, LAMBDA f : f # JNull)]

\* What the week files and the booth files of those runs hold.
SplitCeremonies ==
    { CeremonyObj(Roster, WomenRoster, MatrixOf(GuessIdentity), JInt(1)),
      MatchesObj(PairsOf(GuessShift, <<>>), JInt(1)) }
SplitBooths ==
    { BoothObj(JStr(ManName(0)), JStr(WomanName(0)), Match),
      BoothObj(JStr(ManName(1)), JStr(WomanName(1)), NoMatch) }

\* --------------------------------------------------------------- the run

VARIABLES
    mode,           \* the function main calls (lines 479-490): "all" for
                    \* compute_probabilities, "week" for compute_probabilities_for_week,
                    \* "weeks" for compute_probabilities_split_weeks
    week,           \* --split_week
    allow_comments, \* --allow_comments
    ceremony_dir,   \* the directory of the week_*.json files
    truth_dir,      \* the directory of the booth_*.json files
    ceremony_objs,  \* the (path, obj) list load_json_files gave for ceremony_dir
    truth_objs,     \* the (path, obj) list load_json_files gave for truth_dir
    w,              \* the week being computed (modes "week" and "weeks")
    pc,             \* where the call stands
    problem,        \* what build_problem returned, or how it failed
    eng,            \* the state of enumerate_consistent_matchings
    out,            \* what the current computation wrote, or the error the run ended with
    files           \* the output files written so far

args == <<mode, week, allow_comments, ceremony_dir, truth_dir>>
vars == <<mode, week, allow_comments, ceremony_dir, truth_dir,
          ceremony_objs, truth_objs, w, pc, problem, eng, out, files>>

NoProblem == Failure("none", "")

\* Runs that explore the rounds, and runs that explore the oracle.
RoundInputs ==
    \E cs \in SeqsUpTo(GoodCeremonies \cup BadCeremonies, MaxRounds),
       ts \in SeqsUpTo(GoodBooths \cup BadBooths, 1) :
        /\ ceremony_dir = Listing(WeekPrefix, cs)
        /\ truth_dir = Listing(BoothPrefix, ts)
        /\ mode = "all" /\ week = 0 /\ allow_comments = FALSE
OracleInputs ==
    \E cs \in SeqsUpTo(FewCeremonies, 1),
       ts \in SeqsUpTo(GoodBooths \cup BadBooths, MaxBooth) :
        /\ ceremony_dir = Listing(WeekPrefix, cs)
        /\ truth_dir = Listing(BoothPrefix, ts)
        /\ mode = "all" /\ week = 0 /\ allow_comments = FALSE

\* Runs that explore the shapes of the files.
FormatInputs ==
    \/ \E cs \in SeqsUpTo(FormatCeremonies \cup SplitCeremonies, 2),
          ts \in SeqsUpTo(SplitBooths, 1) :
        /\ ceremony_dir = Listing(WeekPrefix, cs)
        /\ truth_dir = Listing(BoothPrefix, ts)
        /\ mode = "all" /\ week = 0 /\ allow_comments = FALSE
    \/ \E cs \in SeqsUpTo(SplitCeremonies, 1),
          ts \in SeqsUpTo(FormatBooths, 2) :
        /\ ceremony_dir = Listing(WeekPrefix, cs)
        /\ truth_dir = Listing(BoothPrefix, ts)
        /\ mode = "all" /\ week = 0 /\ allow_comments = FALSE

\* Runs on a roster written as dicts, with records that contradict one another.
DictRosterInputs ==
    \E ts \in DictRosterBooths :
        /\ ceremony_dir = Listing(WeekPrefix,
                                  <<CeremonyObj(RosterDict(Roster.v), RosterDict(WomenRoster.v),
                                                MatrixOf(GuessSwap), JInt(1))>>)
        /\ truth_dir = Listing(BoothPrefix, ts)
        /\ mode = "all" /\ week = 0 /\ allow_comments = FALSE

\* Runs that explore the loader.
FileInputs ==
    \E cs \in ListingsOf(LoaderFiles(WeekPrefix,
                                     CeremonyObj(Roster, WomenRoster,
                                                 MatrixOf(GuessIdentity), JInt(1))), 2),
       ts \in ListingsOf({f \in LoaderFiles(BoothPrefix,
                                            BoothObj(JStr(ManName(0)), JStr(WomanName(0)), Match)) :
                            f.path \in {FileName(BoothPrefix, 2), FileName(BoothPrefix, 4),
                                        FileName(BoothPrefix, 5)}}, 1),
       ce \in BOOLEAN, te \in BOOLEAN, ac \in BOOLEAN :
        /\ ceremony_dir = [exists |-> ce, files |-> cs]
        /\ truth_dir = [exists |-> te, files |-> ts]
        /\ mode = "all" /\ week = 0 /\ allow_comments = ac

\* Runs that split the evidence by week.
SplitInputs ==
    \E cw \in [1 .. (MaxWeek + 2) -> SplitCeremonies \cup {JNull}],
       tw \in [{1, MaxWeek + 1} -> SplitBooths \cup {JNull}],
       m \in {"week", "weeks"}, k \in (0 - 1) .. (MaxWeek + 1) :
        /\ cw[MaxWeek + 2] # MatchesObj(PairsOf(GuessShift, <<>>), JInt(1))
        /\ m = "weeks" => k = 0
        /\ ceremony_dir = SplitFolder(WeekPrefix, cw)
        /\ truth_dir = SplitFolder(BoothPrefix,
                                   [p \in 1 .. (MaxWeek + 2) |->
                                      IF p \in DOMAIN tw THEN tw[p] ELSE JNull])
        /\ mode = m /\ week = k /\ allow_comments = FALSE

Init ==
    /\ \/ RoundInputs \/ OracleInputs \/ FormatInputs \/ DictRosterInputs
       \/ FileInputs \/ SplitInputs
    /\ ceremony_objs = <<>>
    /\ truth_objs = <<>>
    /\ w = 0
    /\ pc = "start"
    /\ problem = NoProblem
    /\ eng = IdleEngine
    /\ out = NoOutput
    /\ files = <<>>

\* The run ends with an uncaught exception or a SystemExit.
Fails(msg) == pc' = "failed" /\ out' = [out EXCEPT !.error = msg]

\* The two calls of load_json_files (lines 446-447, 113-114 and 150-151): the
\* lists they give, or the failure of the first that fails.
LoadedBoth(c, t) ==
    [ok |-> c.ok /\ t.ok,
     msg |-> IF ~c.ok THEN c.msg ELSE IF ~t.ok THEN t.msg ELSE "",
     ceremony_objs |-> IF c.ok THEN c.objs ELSE <<>>,
     truth_objs |-> IF c.ok /\ t.ok THEN t.objs ELSE <<>>]
Loaded ==
    LoadedBoth(load_json_files(ceremony_dir, WeekPrefix, allow_comments),
               load_json_files(truth_dir, BoothPrefix, allow_comments))

\* Lines 446-449.
LoadInputs ==
    /\ pc = "start" /\ mode = "all"
    /\ \E l \in {Loaded} :
          /\ ceremony_objs' = l.ceremony_objs
          /\ truth_objs' = l.truth_objs
          /\ IF ~l.ok THEN Fails(l.msg)
             ELSE IF l.ceremony_objs = <<>> /\ l.truth_objs = <<>>
             THEN Fails("No input files found.")
             ELSE pc' = "loaded" /\ out' = out
    /\ UNCHANGED <<args, w, problem, eng, files>>

\* Lines 118-121 and 169-172: the roster of the earliest ceremony file, "" when
\* there is one, or the message the call ends with.
RosterFault(r) ==
    IF ~r.ok THEN r.msg
    ELSE IF ~Truthy(r.men) \/ ~Truthy(r.women) THEN "missing roster"
    ELSE ""
FirstRoster(objs) == RosterFault(roster_from_ceremony_obj(EarliestCeremony(objs).obj, TRUE))

\* Lines 150-172.
PrepareWeek ==
    /\ pc = "start" /\ mode = "week"
    /\ \E l \in {Loaded} :
          /\ ceremony_objs' = l.ceremony_objs
          /\ truth_objs' = l.truth_objs
          /\ IF ~l.ok THEN Fails(l.msg)
             ELSE IF l.ceremony_objs = <<>> THEN Fails("No ceremony files found")
             ELSE IF week < 0 THEN Fails("--split_week must be >= 0")
             ELSE IF week > MaxWeekOf(l.ceremony_objs)
             THEN Fails("Requested week exceeds max available week")
             ELSE IF FirstRoster(l.ceremony_objs) # ""
             THEN Fails(FirstRoster(l.ceremony_objs))
             ELSE pc' = "loaded" /\ out' = out
    /\ w' = week
    /\ UNCHANGED <<args, problem, eng, files>>

\* Lines 113-126, up to the first turn of the loop.
PrepareSplit ==
    /\ pc = "start" /\ mode = "weeks"
    /\ \E l \in {Loaded} :
          /\ ceremony_objs' = l.ceremony_objs
          /\ truth_objs' = l.truth_objs
          /\ IF ~l.ok THEN Fails(l.msg)
             ELSE IF l.ceremony_objs = <<>> THEN Fails("No ceremony files found")
             ELSE IF FirstRoster(l.ceremony_objs) # ""
             THEN Fails(FirstRoster(l.ceremony_objs))
             ELSE pc' = "loaded" /\ out' = out
    /\ w' = 0
    /\ UNCHANGED <<args, problem, eng, files>>

\* The arguments of the call of build_problem: all that was loaded (line 450), or
\* the files up to week w, in week 0 the earliest ceremony file alone (lines
\* 128-138 and 175-183).
BuildCeremonies ==
    IF mode = "all" THEN ceremony_objs
    ELSE IF ceremony_objs = <<>> THEN <<>>
    ELSE IF w = 0 THEN <<EarliestCeremony(ceremony_objs)>>
    ELSE _filter_upto_week(ceremony_objs, w)
BuildTruth ==
    IF mode = "all" THEN truth_objs ELSE _filter_upto_week(truth_objs, w)

\* The Problem the search is given for those arguments: in week 0 the
\* ceremonies are dropped from it (lines 136 and 181).
WithoutCeremonies(pr) == IF pr.ok THEN [pr EXCEPT !.ceremonies = <<>>] ELSE pr
ProblemOf(ceremonies, truth) ==
    IF mode # "all" /\ w = 0 THEN WithoutCeremonies(build_problem(ceremonies, truth))
    ELSE build_problem(ceremonies, truth)

\* Line 450.
Build ==
    /\ pc = "loaded" /\ mode = "all"
    /\ problem' = build_problem(ceremony_objs, truth_objs)
    /\ IF problem'.ok THEN pc' = "built" /\ out' = out ELSE Fails(problem'.msg)
    /\ UNCHANGED <<args, ceremony_objs, truth_objs, w, eng, files>>

\* Lines 175-183.
BuildForWeek ==
    /\ pc = "loaded" /\ mode = "week"
    /\ problem' = ProblemOf(BuildCeremonies, BuildTruth)
    /\ IF problem'.ok THEN pc' = "built" /\ out' = out ELSE Fails(problem'.msg)
    /\ UNCHANGED <<args, ceremony_objs, truth_objs, w, eng, files>>

\* Lines 128-138.
BuildSplitWeek ==
    /\ pc = "loaded" /\ mode = "weeks"
    /\ problem' = ProblemOf(BuildCeremonies, BuildTruth)
    /\ IF problem'.ok THEN pc' = "built" /\ out' = out ELSE Fails(problem'.msg)
    /\ UNCHANGED <<args, ceremony_objs, truth_objs, w, eng, files>>

\* Lines 451 and 94, up to the first call of dfs (or the early return of line 372).
StartSearch ==
    /\ pc = "built"
    /\ eng' = EngineInit(problem)
    /\ pc' = IF eng'.status = "raised" THEN "failed"
             ELSE IF eng'.status = "returned" THEN "enumerated"
             ELSE "search"
    /\ out' = IF eng'.status = "raised"
              THEN [out EXCEPT !.error = Complaint(<<problem.women>>,
                                                   "already taken by another forced pair").msg]
              ELSE out
    /\ UNCHANGED <<args, ceremony_objs, truth_objs, w, problem, files>>

Terminal ==
    /\ pc = "search" /\ AtTerminal(eng)
    /\ eng' = DfsTerminal(eng)
    /\ UNCHANGED <<args, ceremony_objs, truth_objs, w, pc, problem, out, files>>

Forced ==
    /\ pc = "search" /\ AtForced(eng)
    /\ eng' = DfsForced(eng)
    /\ UNCHANGED <<args, ceremony_objs, truth_objs, w, pc, problem, out, files>>

Branch ==
    /\ pc = "search" /\ AtBranch(eng)
    /\ eng' = DfsBranch(eng)
    /\ UNCHANGED <<args, ceremony_objs, truth_objs, w, pc, problem, out, files>>

Reject ==
    /\ pc = "search" /\ AtReject(eng)
    /\ eng' = DfsReject(eng)
    /\ UNCHANGED <<args, ceremony_objs, truth_objs, w, pc, problem, out, files>>

Commit ==
    /\ pc = "search" /\ AtCommit(eng)
    /\ eng' = DfsCommit(eng)
    /\ UNCHANGED <<args, ceremony_objs, truth_objs, w, pc, problem, out, files>>

Exhausted ==
    /\ pc = "search" /\ AtExhausted(eng)
    /\ eng' = DfsExhausted(eng)
    /\ UNCHANGED <<args, ceremony_objs, truth_objs, w, pc, problem, out, files>>

Return ==
    /\ pc = "search" /\ AtReturn(eng)
    /\ eng' = DfsReturn(eng)
    /\ pc' = IF eng'.status = "returned" THEN "enumerated" ELSE "search"
    /\ UNCHANGED <<args, ceremony_objs, truth_objs, w, problem, out, files>>

\* The file json.dump writes (lines 105-107 and 461-463); week is None for the
\* file compute_probabilities writes at out_path.
OutFile(wk, o) ==
    [week |-> wk, men |-> problem.men, women |-> problem.women,
     probabilities |-> o.probabilities]

\* Lines 452-463.
WriteOutput ==
    /\ pc = "enumerated" /\ mode = "all"
    /\ out' = Output(eng.n, eng.total, eng.pair_counts)
    /\ files' = Append(files, OutFile(None, out'))
    /\ pc' = "done"
    /\ UNCHANGED <<args, ceremony_objs, truth_objs, w, problem, eng>>

\* Lines 95-107 and 185-189.
WriteWeek ==
    /\ pc = "enumerated" /\ mode = "week"
    /\ out' = Output(eng.n, eng.total, eng.pair_counts)
    /\ files' = Append(files, OutFile(w, out'))
    /\ pc' = "done"
    /\ UNCHANGED <<args, ceremony_objs, truth_objs, w, problem, eng>>

\* Lines 95-107 and 140-145 for the last week of the loop of line 126.
WriteLastWeek ==
    /\ pc = "enumerated" /\ mode = "weeks" /\ w >= MaxWeekOf(ceremony_objs)
    /\ out' = Output(eng.n, eng.total, eng.pair_counts)
    /\ files' = Append(files, OutFile(w, out'))
    /\ pc' = "done"
    /\ UNCHANGED <<args, ceremony_objs, truth_objs, w, problem, eng>>

\* Lines 95-107 and 140-144 for an earlier week, and the next turn of the loop
\* of line 126: prob, and what the search of the week held, are left behind.
WriteNextWeek ==
    /\ pc = "enumerated" /\ mode = "weeks" /\ w < MaxWeekOf(ceremony_objs)
    /\ files' = Append(files, OutFile(w, Output(eng.n, eng.total, eng.pair_counts)))
    /\ w' = w + 1
    /\ pc' = "loaded"
    /\ problem' = NoProblem
    /\ eng' = IdleEngine
    /\ out' = NoOutput
    /\ UNCHANGED <<args, ceremony_objs, truth_objs>>

Next ==
    \/ LoadInputs
    \/ PrepareWeek
    \/ PrepareSplit
    \/ Build
    \/ BuildForWeek
    \/ BuildSplitWeek
    \/ StartSearch
    \/ Terminal
    \/ Forced
    \/ Branch
    \/ Reject
    \/ Commit
    \/ Exhausted
    \/ Return
    \/ WriteOutput
    \/ WriteWeek
    \/ WriteLastWeek
    \/ WriteNextWeek

Spec == Init /\ [][Next]_vars

\* ------------------------------------------- what the evidence says

\* The ceremony files of the call of build_problem in the order it reads them, and
\* the truth-booth records it reads.
Rounds == NaturalSort(BuildCeremonies)
TruthRecords == [p \in 1 .. Len(BuildTruth) |-> BuildTruth[p].obj]

\* A record whose names can be read, its names as the builder looks them up, and
\* its verdict.
Readable(rec) ==
    rec.t = "dict" /\ StrippedName(Get(rec, Str_man)).ok /\ StrippedName(Get(rec, Str_woman)).ok
ManOf(rec) == StrippedName(Get(rec, Str_man)).v
WomanOf(rec) == StrippedName(Get(rec, Str_woman)).v
VerdictOf(rec) == IF rec.t = "dict" THEN parse_truth_result(Get(rec, Str_result)) ELSE "ValueError"

\* The verdicts of the records, by name.
MatchesOf(records) ==
    {<<ManOf(r), WomanOf(r)>> :
        r \in {x \in Range(records) : Readable(x) /\ VerdictOf(x) = "match"}}
NoMatchesOf(records) ==
    {<<ManOf(r), WomanOf(r)>> :
        r \in {x \in Range(records) : Readable(x) /\ VerdictOf(x) = "no match"}}
Matches == MatchesOf(TruthRecords)
NoMatches == NoMatchesOf(TruthRecords)

\* The ceremony files alone give a Problem, about the N men and the N women.
RosterIs(pr) ==
    /\ pr.ok /\ PyLen(pr.men) = N /\ PyLen(pr.women) = N
    /\ Range(Items(pr.men)) = {JStr(m) : m \in Men}
    /\ Range(Items(pr.women)) = {JStr(x) : x \in Women}
\* Every record is well formed and names people of the roster, and the ceremony
\* files are well formed and establish the roster.
WellFormedEvidence ==
    /\ BuildCeremonies # <<>>
    /\ \A r \in Range(TruthRecords) :
          /\ Readable(r) /\ ManOf(r) \in Men /\ WomanOf(r) \in Women
          /\ VerdictOf(r) # "ValueError"
    /\ RosterIs(build_problem(BuildCeremonies, <<>>))

\* (1) two 'match' records for one man name different women.
ConflictingIn(ms) == \E a \in ms, b \in ms : a[1] = b[1] /\ a[2] # b[2]
\* (2) a 'match' and a 'no match' record for the same pair.
ExcludedIn(ms, ns) == ms \cap ns # {}
\* (3) 'match' records for two men name the same woman.
SharedIn(ms) == \E a \in ms, b \in ms : a[1] # b[1] /\ a[2] = b[2]
\* (4) the domain of some man, after the exclusions and the collapses, is empty.
DomainIn(ms, ns, m) ==
    LET forcedTo == {x \in Women : <<m, x>> \in ms}
        excluded == {x \in Women : <<m, x>> \in ns}
        takenByOthers == {x \in Women : \E m2 \in Men : m2 # m /\ <<m2, x>> \in ms}
    IN (IF forcedTo # {} THEN forcedTo ELSE Women) \ (excluded \cup takenByOthers)
EmptyIn(ms, ns) == \E m \in Men : DomainIn(ms, ns, m) = {}

ConflictingMatches == ConflictingIn(Matches)
MatchExcluded == ExcludedIn(Matches, NoMatches)
SharedWoman == SharedIn(Matches)
EmptyDomain == EmptyIn(Matches, NoMatches)

ContradictionIn(ms, ns) ==
    ConflictingIn(ms) \/ ExcludedIn(ms, ns) \/ SharedIn(ms) \/ EmptyIn(ms, ns)
Contradiction == ContradictionIn(Matches, NoMatches)

\* The roster the first ceremony file gives, where it gives one that can be used.
FirstRosterOf(r) ==
    IF r.ok /\ Truthy(r.men) /\ Truthy(r.women) /\ CanIndex(r.men) /\ CanIndex(r.women)
    THEN [usable |-> TRUE, men |-> r.men, women |-> r.women]
    ELSE [usable |-> FALSE, men |-> JList(<<>>), women |-> JList(<<>>)]
Roster1Of(rounds) ==
    IF rounds = <<>> THEN FirstRosterOf(NoRoster)
    ELSE FirstRosterOf(roster_from_ceremony_obj(rounds[1].obj, TRUE))
Roster1 == Roster1Of(Rounds)

\* The faults of one ceremony file: no 'result'; neither a matrix nor a list of
\* named pairs; a matrix of another height than the roster; roster arrays other
\* than the first file's.
NoResult(obj) == Get(obj, Str_result) = JNull
NoGuess(obj) == ~Has(obj, Str_matchups) /\ Get(obj, Str_matches).t # "list"
WrongHeight(r1, obj) ==
    /\ r1.usable /\ Get(obj, Str_matchups).t = "list"
    /\ PyLen(Get(obj, Str_matchups)) # PyLen(r1.men)
OtherArrays(r1, obj) ==
    /\ r1.usable /\ Truthy(Get(obj, Str_men)) /\ Truthy(Get(obj, Str_women))
    /\ (~PyEq(Get(obj, Str_men), r1.men) \/ ~PyEq(Get(obj, Str_women), r1.women))
\* A pair of a list of named pairs that names somebody the roster does not hold.
StrangerInMatches(r1, obj) ==
    /\ r1.usable /\ ~Has(obj, Str_matchups) /\ Get(obj, Str_matches).t = "list"
    /\ \E p \in 1 .. PyLen(Get(obj, Str_matches)) :
          LET pair == Get(obj, Str_matches).v[p] IN
          /\ Readable(pair)
          /\ \/ ~KnownName(Items(r1.men), ManOf(pair))
             \/ ~KnownName(Items(r1.women), WomanOf(pair))

\* A structural fault: a first ceremony file that gives no roster, a faulty
\* ceremony file, a verdict in no spelling (on which build_problem ends with the
\* ValueError of line 243, which nothing catches, and not with a SystemExit).
StructuralIn(rounds, records, r1) ==
    \/ rounds # <<>> /\ rounds[1].obj.t = "dict" /\ ~r1.usable
    \/ \E p \in 1 .. Len(rounds) :
          /\ rounds[p].obj.t = "dict"
          /\ \/ NoResult(rounds[p].obj) \/ NoGuess(rounds[p].obj)
             \/ WrongHeight(r1, rounds[p].obj) \/ (p > 1 /\ OtherArrays(r1, rounds[p].obj))
    \/ \E r \in Range(records) : r.t = "dict" /\ VerdictOf(r) = "ValueError"
StructuralFault == StructuralIn(Rounds, TruthRecords, Roster1)
\* A referential fault: a record or a pair names somebody the roster does not hold.
ReferentialIn(rounds, records, r1) ==
    \/ \E r \in Range(records) :
          /\ r1.usable /\ Readable(r)
          /\ \/ ~KnownName(Items(r1.men), ManOf(r))
             \/ ~KnownName(Items(r1.women), WomanOf(r))
    \/ \E p \in 1 .. Len(rounds) :
          rounds[p].obj.t = "dict" /\ StrangerInMatches(r1, rounds[p].obj)
ReferentialFault == ReferentialIn(Rounds, TruthRecords, Roster1)

\* The bijections consistent with a Problem: within the domains, through every
\* forced pair, and scoring exactly beams in every ceremony.
Bijections(n) ==
    {s \in [0 .. (n - 1) -> 0 .. (n - 1)] :
        \A a \in 0 .. (n - 1), b \in 0 .. (n - 1) : a # b => s[a] # s[b]}
CorrectGuesses(cer, s) ==
    Cardinality({i \in DOMAIN s : cer.matchups[i + 1][s[i] + 1] = 1})
WithinDomains(pr, s) ==
    /\ \A i \in DOMAIN s : s[i] \in pr.allowed[i]
    /\ \A p \in 1 .. Len(pr.forced_pairs) : s[pr.forced_pairs[p][1]] = pr.forced_pairs[p][2]
Consistent(pr) ==
    {s \in Bijections(PyLen(pr.men)) :
        /\ WithinDomains(pr, s)
        /\ \A k \in 1 .. Len(pr.ceremonies) : CorrectGuesses(pr.ceremonies[k], s) = pr.ceremonies[k].beams}

Searched == pc \in {"enumerated", "done"}

\* The step-by-step run of the engine ends where the call as a whole does.
SameAsCall(e) ==
    e.status = "returned" /\ e.total = eng.total /\ e.pair_counts = eng.pair_counts
RunAgreesWithCall == Searched => SameAsCall(enumerate_consistent_matchings(problem))

\* Every file written is one of a finished computation, in the order of the weeks.
FilesInOrder ==
    /\ \A p \in 1 .. Len(files) : mode = "all" <=> files[p].week = None
    /\ mode = "weeks" => \A p \in 1 .. Len(files) : files[p].week = p - 1
    /\ mode # "weeks" => Len(files) = (IF pc = "done" THEN 1 ELSE 0)

\* ------------------------------------------------------------- the claims

\* C1: for every Problem build_problem returns, the engine's total is the number
\* of bijections within the domains, through the forced pairs, that score exactly
\* required_correct in every round, and pair_counts[i][j] is the number of those
\* that map i to j (so both are zero when there is none).
C1_ExactCounts ==
    Searched =>
        /\ eng.total = Cardinality(Consistent(problem))
        /\ \A i \in 0 .. (eng.n - 1), j \in 0 .. (eng.n - 1) :
              eng.pair_counts[i][j] = Cardinality({s \in Consistent(problem) : s[i] = j})

\* The search counted several bijections and a round ruled out others that the
\* domains allow, some for scoring too few and some for scoring too many.
C1_Witness ==
    /\ pc = "done" /\ eng.total >= 2
    /\ \E s \in Bijections(eng.n), k \in 1 .. Len(problem.ceremonies) :
          WithinDomains(problem, s) /\ CorrectGuesses(problem.ceremonies[k], s) < problem.ceremonies[k].beams
    /\ \E s \in Bijections(eng.n), k \in 1 .. Len(problem.ceremonies) :
          WithinDomains(problem, s) /\ CorrectGuesses(problem.ceremonies[k], s) > problem.ceremonies[k].beams

\* C2: when total > 0, every row and every column of pair_counts sums to total.
C2_RowAndColumnSums ==
    (Searched /\ eng.total > 0) =>
        /\ \A i \in 0 .. (eng.n - 1) :
              SeqSum([p \in 1 .. eng.n |-> eng.pair_counts[i][p - 1]]) = eng.total
        /\ \A j \in 0 .. (eng.n - 1) :
              SeqSum([p \in 1 .. eng.n |-> eng.pair_counts[p - 1][j]]) = eng.total

\* Several bijections were counted, with a forced pair and a round in the Problem.
C2_Witness ==
    /\ pc = "done" /\ eng.total >= 2
    /\ problem.forced_pairs # <<>> /\ problem.ceremonies # <<>>

\* Every man has a 'match' record.
Saturated == \A m \in Men : \E x \in Women : <<m, x>> \in Matches

\* C3 as stated: with a 'match' record for every man, either build_problem fails
\* or the engine returns total = 1, whatever the rounds are.
C3_AsStated == (Saturated /\ pc \in {"done", "failed"}) => (~problem.ok \/ eng.total = 1)

\* C3, amended: with a 'match' record for every man, either build_problem fails
\* and the engine is never started, or the forced pairs are the only candidate and
\* total is 1 when they score exactly required_correct in every round, 0 otherwise.
C3_Saturation ==
    (Saturated /\ pc \in {"done", "failed"}) =>
        \/ ~problem.ok /\ eng.status = "idle"
        \/ /\ problem.ok /\ pc = "done"
           /\ LET s == [i \in 0 .. (eng.n - 1) |-> DictGet(problem.forced_pairs, i)] IN
              IF \A k \in 1 .. Len(problem.ceremonies) :
                    CorrectGuesses(problem.ceremonies[k], s) = problem.ceremonies[k].beams
              THEN eng.total = 1 /\ \A i \in DOMAIN s : eng.pair_counts[i][s[i]] = 1
              ELSE eng.total = 0

\* A full set of forced pairs that a round confirms: the one bijection is counted.
C3_Witness ==
    /\ Saturated /\ pc = "done" /\ problem.ceremonies # <<>> /\ eng.total = 1

\* The evidence without record p of a sequence.
Without(s, p) == SubSeq(s, 1, p - 1) \o SubSeq(s, p + 1, Len(s))
\* total for the given evidence; None when build_problem fails.
TotalOfProblem(pr) == IF ~pr.ok THEN None ELSE enumerate_consistent_matchings(pr).total
TotalOf(cers, truths) == TotalOfProblem(ProblemOf(cers, truths))

\* C4: when the run succeeds, its total is at most the total of the same evidence
\* less one 'no match' record, and at most the total of the same evidence less one
\* round, wherever build_problem succeeds on the smaller evidence too.
C4_Monotonic ==
    pc = "done" =>
        /\ \A p \in 1 .. Len(BuildTruth) :
              (VerdictOf(BuildTruth[p].obj) = "no match"
               /\ TotalOf(BuildCeremonies, Without(BuildTruth, p)) # None)
              => eng.total <= TotalOf(BuildCeremonies, Without(BuildTruth, p))
        /\ \A q \in 1 .. Len(BuildCeremonies) :
              TotalOf(Without(BuildCeremonies, q), BuildTruth) # None
              => eng.total <= TotalOf(Without(BuildCeremonies, q), BuildTruth)

\* A 'no match' record and a round each of which lowered a total that stays positive.
C4_Witness ==
    /\ pc = "done" /\ eng.total > 0
    /\ \E p \in 1 .. Len(BuildTruth) :
          /\ VerdictOf(BuildTruth[p].obj) = "no match"
          /\ TotalOf(BuildCeremonies, Without(BuildTruth, p)) > eng.total
    /\ \E q \in 1 .. Len(BuildCeremonies) :
          TotalOf(Without(BuildCeremonies, q), BuildTruth) > eng.total

\* build_problem has been called, and has returned or failed.
Built == problem # NoProblem
\* build_problem has just returned or failed.
JustBuilt == Built /\ pc \in {"built", "failed"}

\* C5: on well-formed records about known names, build_problem fails exactly when
\* (1) two 'match' records for a man name different women, (2) a pair has a
\* 'match' and a 'no match' record, (3) two men have 'match' records naming one
\* woman, or (4) some man's domain is empty after exclusions and collapses.
C5_FailsExactlyOnContradiction ==
    (JustBuilt /\ WellFormedEvidence) => (~problem.ok <=> Contradiction)

\* build_problem failed on an emptied domain alone.
C5_Witness ==
    /\ JustBuilt /\ WellFormedEvidence /\ ~problem.ok
    /\ EmptyDomain /\ ~ConflictingMatches /\ ~MatchExcluded /\ ~SharedWoman

\* C6: in every Problem returned, (a) the forced pairs are injective, (b) a forced
\* man's domain is exactly his forced woman, (c) who is forced is in no other
\* man's domain, (d) no 'no match' pair is in the man's domain, (e) no domain is
\* empty.
C6_ProblemInvariants ==
    problem.ok =>
        LET fp == problem.forced_pairs
            n == PyLen(problem.men)
        IN
        /\ \A p \in 1 .. Len(fp), q \in 1 .. Len(fp) : p # q => fp[p][2] # fp[q][2]
        /\ \A p \in 1 .. Len(fp) : problem.allowed[fp[p][1]] = {fp[p][2]}
        /\ \A p \in 1 .. Len(fp), i \in 0 .. (n - 1) :
              i # fp[p][1] => fp[p][2] \notin problem.allowed[i]
        /\ \A x \in NoMatches :
              NameIndex(Items(problem.women), x[2])
                 \notin problem.allowed[NameIndex(Items(problem.men), x[1])]
        /\ \A i \in 0 .. (n - 1) : problem.allowed[i] # {}

\* A Problem with two forced pairs and an exclusion.
C6_Witness ==
    /\ problem.ok /\ Len(problem.forced_pairs) >= 2 /\ NoMatches # {}

\* C7 as stated: with no ceremony at all and truth-booth records that are well
\* formed and free of contradiction, compute_probabilities does not fail (a roster
\* is found and a result written); with no evidence of either kind the run fails.
C7_AsStated ==
    /\ (mode = "all" /\ ceremony_objs = <<>> /\ truth_objs # <<>>
        /\ Range(TruthRecords) \subseteq GoodBooths /\ ~Contradiction) => pc # "failed"
    /\ (ceremony_objs = <<>> /\ truth_objs = <<>>) => pc \in {"start", "failed"}

\* C8: a structural, referential or contradiction failure stops the run before
\* the engine is started and nothing is written; once build_problem has returned
\* a Problem the run never aborts, the engine never raises, and a total of 0 is
\* written as an all-zero matrix with the diagnostic.
C8_ErrorKinds ==
    /\ (eng.status # "idle" \/ out.written \/ pc \notin {"start", "loaded", "failed"})
          => ~(StructuralFault \/ ReferentialFault \/ (Contradiction /\ WellFormedEvidence))
    /\ pc = "failed" => (~out.written /\ ~problem.ok /\ eng.status = "idle")
    /\ (pc = "failed" /\ mode # "weeks") => files = <<>>
    /\ eng.status # "raised"
    /\ (pc = "done" /\ eng.total = 0) =>
          /\ out.written /\ out.diagnostic /\ out.error = ""
          /\ \A i \in 0 .. (eng.n - 1), j \in 0 .. (eng.n - 1) : out.probabilities[i][j] = Zero

\* A search that found nothing, written as zeros with the diagnostic.
C8_Witness ==
    /\ pc = "done" /\ eng.total = 0 /\ eng.stack = <<>> /\ eng.order # <<>>
    /\ out.diagnostic

Orderings(n) == {f \in [1 .. n -> 1 .. n] : \A a \in 1 .. n, b \in 1 .. n : a # b => f[a] # f[b]}

\* A Problem like the one of the run, and a result of the engine like its result.
SameProblem(q) ==
    /\ q.ok = problem.ok
    /\ q.ok => (q.allowed = problem.allowed
                /\ Range(q.forced_pairs) = Range(problem.forced_pairs))
SameResult(e) ==
    e.status = "returned" /\ e.total = eng.total /\ e.pair_counts = eng.pair_counts
SameOutcome(q) == SameProblem(q) /\ (q.ok => SameResult(enumerate_consistent_matchings(q)))

\* C9: in whatever order the truth-booth records come, build_problem fails, or
\* succeeds with the same domains and the same forced pairs, and the engine
\* returns the same total and pair_counts.
C9_OracleOrderIrrelevant ==
    (Built /\ pc \in {"done", "failed"}) =>
        \A f \in Orderings(Len(BuildTruth)) :
            SameOutcome(ProblemOf(BuildCeremonies,
                                  [p \in 1 .. Len(BuildTruth) |-> BuildTruth[f[p]]]))

\* A run on three different records, two of them 'match' records.
C9_Witness ==
    /\ pc = "done" /\ Len(BuildTruth) = 3 /\ Cardinality(Range(TruthRecords)) = 3
    /\ Len(problem.forced_pairs) = 2 /\ NoMatches # {}

\* C10: a dfs call that has returned, or is about to try its next candidate, finds
\* assignment and sofar as they were when it was entered; and on entry sofar[k]
\* is the number of assigned men whose pair round k guessed, and taken_mask is the
\* set of assigned women.
C10_CommitUndo ==
    (pc = "search") =>
        LET f == Top(eng) IN
        /\ f.pc \in {"loop", "ret"} =>
              (eng.assignment = f.in_assignment /\ eng.sofar = f.in_sofar)
        /\ f.pc = "entry" =>
              /\ \A k \in 1 .. Len(eng.C) :
                    eng.sofar[k] = Cardinality({i \in 0 .. (eng.n - 1) :
                                       eng.assignment[i] # None
                                       /\ eng.assignment[i] \in eng.C[k][i]})
              /\ f.taken_mask = {eng.assignment[i] :
                                   i \in {x \in 0 .. (eng.n - 1) : eng.assignment[x] # None}}

\* A call back at its loop after a commit that had raised a round's sum, two
\* levels down the search.
C10_Witness ==
    /\ pc = "search" /\ Len(eng.stack) >= 2
    /\ Top(eng).pc = "loop" /\ Top(eng).j # None /\ SeqSum(Top(eng).inc) > 0
    /\ Top(eng).cand_js # <<>>

\* The consistent bijections that complete the partial assignment of the engine,
\* with man i given woman j as well when i is a man.
Completions(e, i, j) ==
    {s \in Consistent(problem) :
        /\ \A x \in 0 .. (e.n - 1) : e.assignment[x] # None => s[x] = e.assignment[x]
        /\ i # None => s[i] = j}

\* The guesses of round k that bijection s confirms among the men of a list.
FurtherMatches(e, k, s, men) ==
    Cardinality({p \in 1 .. Len(men) : s[men[p]] \in e.C[k][men[p]]})

\* The bijections within the domains that extend the partial assignment, with man
\* i given woman j as well when i is a man, whatever they score.
Extensions(e, i, j) ==
    {s \in Bijections(e.n) :
        /\ WithinDomains(problem, s)
        /\ \A x \in 0 .. (e.n - 1) : e.assignment[x] # None => s[x] = e.assignment[x]
        /\ i # None => s[i] = j}

\* C11: when dfs skips candidate j for man i (a round would pass its beams, or
\* could no longer reach them), or abandons the branch at a forced man, no
\* consistent bijection completes that partial assignment; and wherever
\* ub_additional(k) is computed it is at least the number of further round-k
\* matches of any bijection within the domains that extends the assignment.
C11_PruningSound ==
    (pc = "search") =>
        LET f == Top(eng) IN
        /\ AtReject(eng) => Completions(eng, f.i, Head(f.cand_js)) = {}
        /\ (AtForced(eng) /\ ForcedPruned(eng, f)) => Completions(eng, None, None) = {}
        /\ (f.pc = "loop" /\ f.cand_js # <<>>) =>
              LET j == Head(f.cand_js)
                  men == StillUnassigned(eng, f.i)
              IN \A k \in 1 .. Len(eng.C) : \A s \in Extensions(eng, f.i, j) :
                    FurtherMatches(eng, k, s, men)
                       <= ub_additional(eng, k, Avail(eng, f.taken_mask \cup {j}), men)
        /\ AtForced(eng) =>
              LET men == StillUnassigned(eng, None) IN
              \A k \in 1 .. Len(eng.C) : \A s \in Extensions(eng, None, None) :
                    FurtherMatches(eng, k, s, men)
                       <= ub_additional(eng, k, Avail(eng, f.taken_mask), men)

\* Below the first level of the search a candidate is skipped on the upper bound
\* alone, although bijections within the domains extend the assignment with it
\* and other bijections are consistent with the Problem.
C11_Witness ==
    /\ pc = "search" /\ Len(eng.stack) >= 2 /\ AtReject(eng)
    /\ ~Exceeds(eng, Top(eng).i, Head(Top(eng).cand_js))
    /\ FallsShort(eng, Top(eng), Head(Top(eng).cand_js))
    /\ Extensions(eng, Top(eng).i, Head(Top(eng).cand_js)) # {}
    /\ Consistent(problem) # {}


====
